---- MODULE Spec2Model ----
(***************************************************************************)
(* Discretisation of the renewal-type integral equation                    *)
(*     f(t) = h(t) + int_0^t f(t-u) lambda(u) du                           *)
(* as computed by notebooks/Discretisation_of_integral_equations.ipynb:    *)
(* Algorithm 1 (double loop, fhat / f_loop) and Algorithm 2 (one loop over *)
(* columns with precomputed matrices H and L, F / f_vec).                  *)
(*                                                                         *)
(* Arithmetic.  With the notebook's kernels Delta = T / N, the grid points, *)
(* the lags and every array element are binary64 numbers, and every        *)
(* quotient, product, sum and difference rounds as the code's does.  With  *)
(* integer-valued kernels the horizon T is a multiple of N, so Delta, the  *)
(* grid points and every element are small integers, which binary64        *)
(* represents and combines without rounding: integer arithmetic is then    *)
(* exactly what the code computes.  SpecGrid takes any T and N and models  *)
(* Delta = T / N and the grid in binary64.                                 *)
(*                                                                         *)
(* Arrays are 0-indexed functions: a vector is a function on 0..len-1, a   *)
(* matrix a function on 0..rows-1 of functions on 0..cols-1.               *)
(***************************************************************************)
EXTENDS Integers, Sequences, FiniteSets, TLC

\* ---------------------------------------------------------------- bounds
MaxN == 3
MaxDelta == 2
MaxCoef == 1
MaxGridN == 6
MaxGridT == 6

\* the significand width of binary64, the type of "100 / N"
MantBits == 53

\* ------------------------------------------------------------- variables
VARIABLES
    N,        \* number of time steps (cell "N = 500")
    T,        \* horizon, the literal 100 of "Delta = 100 / N"
    hker,     \* the caller's kernel h: coefficients and domain
    lker,     \* the caller's kernel lam: coefficients and domain
    pc,       \* the statement the notebook executes next
    err,      \* the exception that ended the run, "none" while running
    defined,  \* names bound in the notebook's namespace
    Delta, fhat, n, i, f_loop,
    A_H, B_H, H, A_L, B_L, L, F, f_vec,
    grid,     \* the time grid of the plotting cell
    wr1,      \* entries of fhat assigned so far
    wr2,      \* entries of F assigned so far
    reads,    \* entries of the solution array read by the last step
    rowi      \* under SpecRows: per row, the next i of its inner loop

vars == <<N, T, hker, lker, pc, err, defined, Delta, fhat, n, i, f_loop,
          A_H, B_H, H, A_L, B_L, L, F, f_vec, grid, wr1, wr2, reads, rowi>>

\* ---------------------------------------------------------------- binary64
Min2(a, b) == IF a <= b THEN a ELSE b
Max2(a, b) == IF a >= b THEN a ELSE b

\* A natural number is a sequence of limbs in base LimbBase, least
\* significant first, without leading zero limbs; <<>> is 0.
LimbBits == 3 * 3
LimbBase == 2 ^ LimbBits

Limb(x, j) == IF j \in 1..Len(x) THEN x[j] ELSE 0

RECURSIVE NTrim(_)
NTrim(x) ==
    IF x = <<>> THEN x
    ELSE IF x[Len(x)] = 0 THEN NTrim(SubSeq(x, 1, Len(x) - 1)) ELSE x

\* x * k + c for small naturals k and c
RECURSIVE NMulCarry(_, _, _)
NMulCarry(x, k, c) ==
    IF x = <<>>
    THEN IF c = 0 THEN <<>> ELSE <<c % LimbBase>> \o NMulCarry(x, k, c \div LimbBase)
    ELSE <<(x[1] * k + c) % LimbBase>>
           \o NMulCarry(Tail(x), k, (x[1] * k + c) \div LimbBase)

NMulSmall(x, k) == NTrim(NMulCarry(x, k, 0))

\* the limbs of a natural number
RECURSIVE NOfInt(_)
NOfInt(k) == IF k = 0 THEN <<>> ELSE <<k % LimbBase>> \o NOfInt(k \div LimbBase)

\* x + y + c from limb j on
RECURSIVE NAddFrom(_, _, _, _)
NAddFrom(x, y, j, c) ==
    IF j > Max2(Len(x), Len(y))
    THEN IF c = 0 THEN <<>> ELSE <<c>>
    ELSE <<(Limb(x, j) + Limb(y, j) + c) % LimbBase>>
           \o NAddFrom(x, y, j + 1, (Limb(x, j) + Limb(y, j) + c) \div LimbBase)

NAdd(x, y) == NAddFrom(x, y, 1, 0)

\* column k of the schoolbook product: the sum of x[j] * y[k + 1 - j]
RECURSIVE NColumn(_, _, _, _)
NColumn(x, y, k, j) ==
    IF j > Len(x) THEN 0
    ELSE Limb(x, j) * Limb(y, k + 1 - j) + NColumn(x, y, k, j + 1)

\* the columns from k on, with the carry c of the columns below
RECURSIVE NMulFrom(_, _, _, _)
NMulFrom(x, y, k, c) ==
    IF k > Len(x) + Len(y)
    THEN <<>>
    ELSE <<(NColumn(x, y, k, 1) + c) % LimbBase>>
           \o NMulFrom(x, y, k + 1, (NColumn(x, y, k, 1) + c) \div LimbBase)

\* x * y
NMul(x, y) == NTrim(NMulFrom(x, y, 1, 0))

\* x - y - c for x >= y + c, c a borrow of 0 or 1
RECURSIVE NSubBorrow(_, _, _)
NSubBorrow(x, y, c) ==
    IF x = <<>>
    THEN <<>>
    ELSE <<(x[1] - Limb(y, 1) - c + LimbBase) % LimbBase>>
           \o NSubBorrow(Tail(x), IF y = <<>> THEN y ELSE Tail(y),
                         IF x[1] - Limb(y, 1) - c < 0 THEN 1 ELSE 0)

NSub(x, y) == NTrim(NSubBorrow(x, y, 0))

\* x * 2^s
NShl(x, s) ==
    LET q == s \div LimbBits
        r == s % LimbBits
    IN  NTrim([j \in 1..q |-> 0]
              \o [j \in 1..(Len(x) + 1) |->
                    ((Limb(x, j) * (2 ^ r)) % LimbBase)
                      + (Limb(x, j - 1) \div (2 ^ (LimbBits - r)))])

\* x \div 2^s
NShr(x, s) ==
    LET q == s \div LimbBits
        r == s % LimbBits
    IN  NTrim([j \in 1..(Len(x) - q) |->
                 (Limb(x, q + j) \div (2 ^ r))
                   + ((Limb(x, q + j + 1) % (2 ^ r)) * (2 ^ (LimbBits - r)))])

\* the number of bits of x
NBitLen(x) ==
    IF x = <<>> THEN 0
    ELSE (Len(x) - 1) * LimbBits
           + (CHOOSE k \in 1..LimbBits : 2 ^ (k - 1) <= x[Len(x)] /\ x[Len(x)] < 2 ^ k)

\* x < y, compared from the top limb
RECURSIVE NLessSameLen(_, _)
NLessSameLen(x, y) ==
    IF x = <<>> THEN FALSE
    ELSE IF x[Len(x)] # y[Len(y)] THEN x[Len(x)] < y[Len(y)]
    ELSE NLessSameLen(SubSeq(x, 1, Len(x) - 1), SubSeq(y, 1, Len(y) - 1))

NLess(x, y) == Len(x) < Len(y) \/ (Len(x) = Len(y) /\ NLessSameLen(x, y))

\* A non-negative binary64 number is [m, e] with value m * 2^e, m of exactly
\* MantBits bits; zero is [m |-> <<>>, e |-> 0].  (The exponent range and
\* subnormals are out of reach of the values computed here.)
FZero == [m |-> <<>>, e |-> 0]

\* the binary64 nearest to x * 2^e, ties to even
FRound(x, e) ==
    IF x = <<>> THEN FZero
    ELSE IF NBitLen(x) <= MantBits
    THEN [m |-> NShl(x, MantBits - NBitLen(x)), e |-> e - (MantBits - NBitLen(x))]
    ELSE LET d      == NBitLen(x) - MantBits
             kept   == NShr(x, d)
             guard  == Limb(NShr(x, d - 1), 1) % 2
             sticky == NShl(NShr(x, d - 1), d - 1) # x
             up     == guard = 1 /\ (sticky \/ kept[1] % 2 = 1)
             inc    == NMulCarry(kept, 1, 1)
         IN  IF ~ up THEN [m |-> kept, e |-> e + d]
             ELSE IF NBitLen(inc) = MantBits THEN [m |-> inc, e |-> e + d]
             ELSE [m |-> NShr(inc, 1), e |-> e + d + 1]

\* a * 2^j >= b for the least j >= jj
RECURSIVE ScaleUp(_, _, _)
ScaleUp(a, b, jj) == IF a >= b THEN <<a, jj>> ELSE ScaleUp(2 * a, b, jj + 1)

\* a < 2 * b * 2^j for the least j >= jj
RECURSIVE ScaleDown(_, _, _)
ScaleDown(a, b, jj) == IF a < 2 * b THEN <<b, jj>> ELSE ScaleDown(a, 2 * b, jj + 1)

\* the limbs still to come in a long division with remainder r < b: cnt
\* quotient limbs, least significant first, below them one flag limb that is
\* 1 when a remainder is left
RECURSIVE QLimbs(_, _, _)
QLimbs(r, b, cnt) ==
    IF cnt = 0
    THEN <<IF r = 0 THEN 0 ELSE 1>>
    ELSE QLimbs((r * LimbBase) % b, b, cnt - 1) \o <<(r * LimbBase) \div b>>

\* the number of limbs that hold MantBits + 1 bits
QuotLimbs == (MantBits + LimbBits) \div LimbBits

\* the float t / d of two positive integers, correctly rounded: with
\* t / d = (a / b) * 2^k and 1 <= a / b < 2, the quotient a * 2^P \div b and
\* one sticky bit below it are rounded to MantBits bits
FDivInt(t, d) ==
    LET up == ScaleUp(t, d, 0)
        dn == ScaleDown(up[1], d, 0)
        a  == up[1]
        b  == dn[1]
        k  == dn[2] - up[2]
        ql == QLimbs(a - b, b, QuotLimbs)
        x  == NShl(Tail(ql) \o <<1>>, 1)
    IN  FRound([x EXCEPT ![1] = x[1] + ql[1]], k - QuotLimbs * LimbBits - 1)

\* the float x * k for a natural k (k converts to binary64 exactly)
FMulInt(x, k) == FRound(NMulSmall(x.m, k), x.e)

\* the float of a natural number below 2^MantBits
FOfInt(k) == FRound(NOfInt(k), 0)

\* the float x * y (the exact product is bound once, then rounded)
FMul(x, y) ==
    IF x = FZero \/ y = FZero THEN FZero
    ELSE CHOOSE r \in {FRound(p, x.e + y.e) : p \in {NMul(x.m, y.m)}} : TRUE

\* the float x + y (the exact sum is bound once, then rounded)
FAdd(x, y) ==
    IF x = FZero THEN y
    ELSE IF y = FZero THEN x
    ELSE CHOOSE r \in
           {FRound(q, Min2(x.e, y.e)) :
              q \in {NAdd(NShl(x.m, x.e - Min2(x.e, y.e)),
                          NShl(y.m, y.e - Min2(x.e, y.e)))}} : TRUE

\* x < y
FLess(x, y) ==
    IF y = FZero THEN FALSE
    ELSE IF x = FZero THEN TRUE
    ELSE x.e < y.e \/ (x.e = y.e /\ NLess(x.m, y.m))

\* the float x - y for x >= y >= 0
FSub(x, y) ==
    IF y = FZero THEN x
    ELSE LET e0 == Min2(x.e, y.e)
         IN  FRound(NSub(NShl(x.m, x.e - e0), NShl(y.m, y.e - e0)), e0)

\* |x - y|
FAbsDiff(x, y) == IF FLess(x, y) THEN FSub(y, x) ELSE FSub(x, y)

\* the unit in the last place of x > 0
FUlp(x) == [m |-> NShl(<<1>>, MantBits - 1), e |-> x.e - (MantBits - 1)]

\* ------------------------------------------------- the arrays' elements
\* With affine kernels every element of fhat, H, L and F is an integer (and
\* binary64 computes on it without rounding); with the notebook's kernels
\* every element is a binary64 number and each * and + rounds.
Exact == hker.form = "affine" /\ lker.form = "affine"

\* 0.0, the element of np.zeros and the start of np.sum
Zero == IF Exact THEN 0 ELSE FZero

\* x + y
Plus(x, y) == IF Exact THEN x + y ELSE FAdd(x, y)

\* x * y
Times(x, y) == IF Exact THEN x * y ELSE FMul(x, y)

\* x * Delta, for the step size d
TimesDelta(x, d) == IF Exact THEN x * d ELSE FMul(x, d)

\* d * k for the step size d and a whole number k (a grid index, a lag, an
\* entry of np.arange): "n * Delta", "(n - i) * Delta", "Delta * np.arange(..)"
StepTimes(d, k) == IF Exact THEN d * k ELSE FMulInt(d, k)

\* ------------------------------------------------------- numpy primitives
Len0(v) == Cardinality(DOMAIN v)
Rows(M) == Cardinality(DOMAIN M)
Cols(M) == IF DOMAIN M = {} THEN 0 ELSE Cardinality(DOMAIN M[0])

\* np.zeros(shape = (r, c))
Zeros(r, c) == [a \in 0..(r - 1) |-> [b \in 0..(c - 1) |-> Zero]]

\* np.arange(a, b)
Arange(a, b) == [k \in 0..(b - a - 1) |-> a + k]

\* np.flip(v)
Flip(v) == [k \in DOMAIN v |-> v[Len0(v) - 1 - k]]

\* np.tile(v, (r, 1)) for a vector v: r copies of v as rows
Tile(v, r) == [a \in 0..(r - 1) |-> v]

\* np.transpose(M) of an r-by-c matrix whose column count is c
Transpose(M, c) == [b \in 0..(c - 1) |-> [a \in DOMAIN M |-> M[a][b]]]

\* scipy.linalg.toeplitz(c): first column c, first row c
toeplitz(c) ==
    [a \in DOMAIN c |-> [b \in DOMAIN c |-> IF a >= b THEN c[a - b] ELSE c[b - a]]]

\* scalar * matrix
Scale(s, M) == [a \in DOMAIN M |-> [b \in DOMAIN M[a] |-> StepTimes(s, M[a][b])]]

\* a slice bound x applied to an axis of length len: negative bounds count
\* from the end, and bounds beyond the axis are clipped
SliceBound(x, len) == IF x < 0 THEN Max2(x + len, 0) ELSE Min2(x, len)

\* the indices selected by lo : hi on an axis of length len
SliceIdx(lo, hi, len) == SliceBound(lo, len)..(SliceBound(hi, len) - 1)

\* M[r0 : r1, c0 : c1], re-based at 0
Slice2(M, r0, r1, c0, c1) ==
    LET rs == SliceIdx(r0, r1, Rows(M))
        cs == SliceIdx(c0, c1, Cols(M))
        rb == SliceBound(r0, Rows(M))
        cb == SliceBound(c0, Cols(M))
    IN  [a \in 0..(Cardinality(rs) - 1) |->
            [b \in 0..(Cardinality(cs) - 1) |-> M[rb + a][cb + b]]]

\* an integer index into an axis of length len (negative wraps around)
PyIndex(x, len) == IF x < 0 THEN x + len ELSE x

\* np.sum of a vector of fewer than 8 elements: the elements are added to
\* 0.0 one by one, from index 0 up
RECURSIVE SumTo(_, _)
SumTo(v, k) == IF k < 0 THEN Zero ELSE Plus(SumTo(v, k - 1), v[k])
NpSum(v) == SumTo(v, Len0(v) - 1)

\* np.diagonal(M)
Diagonal(M) == [k \in 0..(Min2(Rows(M), Cols(M)) - 1) |-> M[k][k]]

\* ------------------------------------------------------------ the kernels
\* h and lam are callables the solvers only call.  Two forms are run:
\*   "notebook"  the notebook's own definitions, h = 1 - G and lam = R * g,
\*               in binary64, on the library calls gamma.cdf, gamma.pdf and
\*               np.sin;
\*   "affine"    integer-valued kernels c0 + ct * t + ctau * tau, total or
\*               with a restricted domain outside which the call raises.
\*
\* The library calls gamma.cdf, gamma.pdf and np.sin are tabulated at every
\* argument that the grids of N <= 4 with T = 1 or T / N <= 3 produce, as
\* scipy and numpy evaluate them on glibc 2.36:
\*   gamma.cdf  scipy's gammainc(3, x), x = t / scale (cephes igam): for
\*              x <= 3 the power series
\*              fac(x) / 3 * sum_k x^k / (4 ... (3 + k)), for x > 3 one
\*              minus fac(x) times the continued fraction of the upper
\*              function, where fac(x) = x^3 e^-x / Gamma(3) is
\*              exp(3 log x - x - log 2) for |3 - x| > 1.2 and otherwise
\*              the Lanczos form sqrt(c / e) / L(3) * exp(3 - x) * (x / c)^3,
\*              c = 3 + g - 0.5;
\*   gamma.pdf  exp(2 log x - x - log 2) / scale;
\*   np.sin     the libm sine, added to 1.15;
\* each operation in binary64.  A call returns the same value every time it
\* is made with the same argument.

\* the value of gamma.cdf(t, a = 3, scale = 1 / (1 + 0.01 * tau))
\* at <<t, tau>>, t > 0
GammaCdf ==
       <<[m |-> <<0, 0, 0, 0, 0, 128>>, e |-> -54], [m |-> <<>>, e |-> 0]>>
          :> [m |-> <<7, 177, 190, 406, 335, 141>>, e |-> -61]
    @@ <<[m |-> <<0, 0, 0, 0, 0, 128>>, e |-> -54], [m |-> <<0, 0, 0, 0, 0, 128>>, e |-> -54]>>
          :> [m |-> <<253, 463, 246, 156, 335, 142>>, e |-> -61]
    @@ <<[m |-> <<0, 0, 0, 0, 0, 128>>, e |-> -54], [m |-> <<0, 0, 0, 0, 0, 128>>, e |-> -53]>>
          :> [m |-> <<364, 128, 312, 27, 337, 143>>, e |-> -61]
    @@ <<[m |-> <<0, 0, 0, 0, 0, 128>>, e |-> -54], [m |-> <<0, 0, 0, 0, 0, 192>>, e |-> -53]>>
          :> [m |-> <<35, 157, 247, 21, 341, 144>>, e |-> -61]
    @@ <<[m |-> <<341, 170, 341, 170, 341, 170>>, e |-> -54], [m |-> <<>>, e |-> 0]>>
          :> [m |-> <<340, 63, 406, 164, 442, 157>>, e |-> -60]
    @@ <<[m |-> <<341, 170, 341, 170, 341, 170>>, e |-> -54], [m |-> <<341, 170, 341, 170, 341, 170>>, e |-> -54]>>
          :> [m |-> <<207, 361, 173, 228, 162, 159>>, e |-> -60]
    @@ <<[m |-> <<342, 170, 341, 170, 341, 170>>, e |-> -54], [m |-> <<341, 170, 341, 170, 341, 170>>, e |-> -53]>>
          :> [m |-> <<444, 206, 466, 357, 398, 160>>, e |-> -60]
    @@ <<[m |-> <<0, 0, 0, 0, 0, 128>>, e |-> -53], [m |-> <<>>, e |-> 0]>>
          :> [m |-> <<495, 389, 170, 302, 372, 235>>, e |-> -59]
    @@ <<[m |-> <<0, 0, 0, 0, 0, 128>>, e |-> -53], [m |-> <<0, 0, 0, 0, 0, 128>>, e |-> -54]>>
          :> [m |-> <<43, 7, 239, 37, 145, 237>>, e |-> -59]
    @@ <<[m |-> <<0, 0, 0, 0, 0, 128>>, e |-> -53], [m |-> <<0, 0, 0, 0, 0, 128>>, e |-> -53]>>
          :> [m |-> <<320, 315, 314, 275, 432, 238>>, e |-> -59]
    @@ <<[m |-> <<341, 170, 341, 170, 341, 170>>, e |-> -53], [m |-> <<>>, e |-> 0]>>
          :> [m |-> <<455, 396, 492, 392, 254, 247>>, e |-> -58]
    @@ <<[m |-> <<342, 170, 341, 170, 341, 170>>, e |-> -53], [m |-> <<341, 170, 341, 170, 341, 170>>, e |-> -54]>>
          :> [m |-> <<495, 131, 109, 282, 296, 249>>, e |-> -58]
    @@ <<[m |-> <<0, 0, 0, 0, 0, 192>>, e |-> -53], [m |-> <<>>, e |-> 0]>>
          :> [m |-> <<186, 410, 385, 32, 466, 165>>, e |-> -57]
    @@ <<[m |-> <<0, 0, 0, 0, 0, 192>>, e |-> -53], [m |-> <<0, 0, 0, 0, 0, 128>>, e |-> -54]>>
          :> [m |-> <<325, 307, 79, 143, 477, 166>>, e |-> -57]
    @@ <<[m |-> <<0, 0, 0, 0, 0, 128>>, e |-> -52], [m |-> <<>>, e |-> 0]>>
          :> [m |-> <<465, 339, 143, 60, 234, 164>>, e |-> -56]
    @@ <<[m |-> <<0, 0, 0, 0, 0, 128>>, e |-> -52], [m |-> <<0, 0, 0, 0, 0, 128>>, e |-> -52]>>
          :> [m |-> <<349, 119, 118, 244, 124, 168>>, e |-> -56]
    @@ <<[m |-> <<0, 0, 0, 0, 0, 128>>, e |-> -52], [m |-> <<0, 0, 0, 0, 0, 128>>, e |-> -51]>>
          :> [m |-> <<163, 364, 27, 476, 33, 172>>, e |-> -56]
    @@ <<[m |-> <<0, 0, 0, 0, 0, 128>>, e |-> -52], [m |-> <<0, 0, 0, 0, 0, 192>>, e |-> -51]>>
          :> [m |-> <<11, 463, 295, 143, 474, 175>>, e |-> -56]
    @@ <<[m |-> <<0, 0, 0, 0, 0, 128>>, e |-> -51], [m |-> <<>>, e |-> 0]>>
          :> [m |-> <<387, 157, 424, 172, 277, 165>>, e |-> -54]
    @@ <<[m |-> <<0, 0, 0, 0, 0, 128>>, e |-> -51], [m |-> <<0, 0, 0, 0, 0, 128>>, e |-> -52]>>
          :> [m |-> <<166, 511, 255, 196, 160, 168>>, e |-> -54]
    @@ <<[m |-> <<0, 0, 0, 0, 0, 128>>, e |-> -51], [m |-> <<0, 0, 0, 0, 0, 128>>, e |-> -51]>>
          :> [m |-> <<299, 125, 282, 76, 43, 171>>, e |-> -54]
    @@ <<[m |-> <<0, 0, 0, 0, 0, 128>>, e |-> -51], [m |-> <<0, 0, 0, 0, 0, 128>>, e |-> -50]>>
          :> [m |-> <<243, 98, 443, 380, 318, 176>>, e |-> -54]
    @@ <<[m |-> <<0, 0, 0, 0, 0, 128>>, e |-> -51], [m |-> <<0, 0, 0, 0, 0, 192>>, e |-> -50]>>
          :> [m |-> <<120, 227, 458, 504, 77, 182>>, e |-> -54]
    @@ <<[m |-> <<0, 0, 0, 0, 0, 192>>, e |-> -51], [m |-> <<>>, e |-> 0]>>
          :> [m |-> <<36, 281, 204, 322, 339, 147>>, e |-> -53]
    @@ <<[m |-> <<0, 0, 0, 0, 0, 192>>, e |-> -51], [m |-> <<0, 0, 0, 0, 0, 128>>, e |-> -52]>>
          :> [m |-> <<104, 397, 259, 91, 192, 149>>, e |-> -53]
    @@ <<[m |-> <<0, 0, 0, 0, 0, 192>>, e |-> -51], [m |-> <<0, 0, 0, 0, 0, 192>>, e |-> -51]>>
          :> [m |-> <<364, 442, 296, 266, 382, 152>>, e |-> -53]
    @@ <<[m |-> <<0, 0, 0, 0, 0, 192>>, e |-> -51], [m |-> <<0, 0, 0, 0, 0, 192>>, e |-> -50]>>
          :> [m |-> <<7, 454, 198, 54, 344, 157>>, e |-> -53]
    @@ <<[m |-> <<0, 0, 0, 0, 0, 192>>, e |-> -51], [m |-> <<0, 0, 0, 0, 0, 144>>, e |-> -49]>>
          :> [m |-> <<2, 19, 489, 460, 222, 162>>, e |-> -53]
    @@ <<[m |-> <<0, 0, 0, 0, 0, 128>>, e |-> -50], [m |-> <<>>, e |-> 0]>>
          :> [m |-> <<316, 319, 332, 165, 23, 195>>, e |-> -53]
    @@ <<[m |-> <<0, 0, 0, 0, 0, 128>>, e |-> -50], [m |-> <<0, 0, 0, 0, 0, 128>>, e |-> -51]>>
          :> [m |-> <<259, 85, 130, 118, 505, 197>>, e |-> -53]
    @@ <<[m |-> <<0, 0, 0, 0, 0, 128>>, e |-> -50], [m |-> <<0, 0, 0, 0, 0, 128>>, e |-> -50]>>
          :> [m |-> <<65, 29, 287, 493, 414, 200>>, e |-> -53]
    @@ <<[m |-> <<0, 0, 0, 0, 0, 192>>, e |-> -50], [m |-> <<>>, e |-> 0]>>
          :> [m |-> <<55, 136, 477, 319, 69, 240>>, e |-> -53]
    @@ <<[m |-> <<0, 0, 0, 0, 0, 192>>, e |-> -50], [m |-> <<0, 0, 0, 0, 0, 128>>, e |-> -51]>>
          :> [m |-> <<369, 460, 278, 498, 231, 241>>, e |-> -53]
    @@ <<[m |-> <<0, 0, 0, 0, 0, 192>>, e |-> -50], [m |-> <<0, 0, 0, 0, 0, 192>>, e |-> -51]>>
          :> [m |-> <<25, 337, 28, 150, 37, 242>>, e |-> -53]
    @@ <<[m |-> <<0, 0, 0, 0, 0, 192>>, e |-> -50], [m |-> <<0, 0, 0, 0, 0, 192>>, e |-> -50]>>
          :> [m |-> <<252, 363, 506, 158, 403, 243>>, e |-> -53]
    @@ <<[m |-> <<0, 0, 0, 0, 0, 128>>, e |-> -49], [m |-> <<>>, e |-> 0]>>
          :> [m |-> <<309, 406, 434, 122, 245, 252>>, e |-> -53]
    @@ <<[m |-> <<0, 0, 0, 0, 0, 144>>, e |-> -49], [m |-> <<>>, e |-> 0]>>
          :> [m |-> <<262, 351, 238, 68, 207, 254>>, e |-> -53]
    @@ <<[m |-> <<0, 0, 0, 0, 0, 144>>, e |-> -49], [m |-> <<0, 0, 0, 0, 0, 192>>, e |-> -51]>>
          :> [m |-> <<393, 32, 58, 323, 366, 254>>, e |-> -53]
    @@ <<[m |-> <<0, 0, 0, 0, 0, 192>>, e |-> -49], [m |-> <<>>, e |-> 0]>>
          :> [m |-> <<321, 20, 438, 279, 443, 255>>, e |-> -53]

\* the value of gamma.pdf(t, a = 3, scale = 1 / (1 + 0.01 * tau))
\* at <<t, tau>>, t > 0
GammaPdf ==
       <<[m |-> <<0, 0, 0, 0, 0, 128>>, e |-> -54], [m |-> <<>>, e |-> 0]>>
          :> [m |-> <<11, 65, 427, 499, 190, 199>>, e |-> -58]
    @@ <<[m |-> <<0, 0, 0, 0, 0, 128>>, e |-> -54], [m |-> <<0, 0, 0, 0, 0, 128>>, e |-> -54]>>
          :> [m |-> <<223, 57, 146, 115, 382, 200>>, e |-> -58]
    @@ <<[m |-> <<0, 0, 0, 0, 0, 128>>, e |-> -54], [m |-> <<0, 0, 0, 0, 0, 128>>, e |-> -53]>>
          :> [m |-> <<277, 150, 387, 198, 64, 202>>, e |-> -58]
    @@ <<[m |-> <<0, 0, 0, 0, 0, 128>>, e |-> -54], [m |-> <<0, 0, 0, 0, 0, 192>>, e |-> -53]>>
          :> [m |-> <<188, 176, 464, 239, 261, 203>>, e |-> -58]
    @@ <<[m |-> <<0, 0, 0, 0, 0, 128>>, e |-> -54], [m |-> <<0, 0, 0, 0, 0, 128>>, e |-> -52]>>
          :> [m |-> <<185, 429, 198, 240, 461, 204>>, e |-> -58]
    @@ <<[m |-> <<341, 170, 341, 170, 341, 170>>, e |-> -54], [m |-> <<>>, e |-> 0]>>
          :> [m |-> <<429, 475, 294, 485, 25, 163>>, e |-> -57]
    @@ <<[m |-> <<341, 170, 341, 170, 341, 170>>, e |-> -54], [m |-> <<341, 170, 341, 170, 341, 170>>, e |-> -54]>>
          :> [m |-> <<417, 439, 345, 469, 257, 164>>, e |-> -57]
    @@ <<[m |-> <<341, 170, 341, 170, 341, 170>>, e |-> -54], [m |-> <<341, 170, 341, 170, 341, 170>>, e |-> -53]>>
          :> [m |-> <<121, 83, 375, 359, 493, 165>>, e |-> -57]
    @@ <<[m |-> <<341, 170, 341, 170, 341, 170>>, e |-> -54], [m |-> <<0, 0, 0, 0, 0, 128>>, e |-> -52]>>
          :> [m |-> <<157, 225, 121, 157, 221, 167>>, e |-> -57]
    @@ <<[m |-> <<0, 0, 0, 0, 0, 128>>, e |-> -53], [m |-> <<>>, e |-> 0]>>
          :> [m |-> <<11, 459, 283, 95, 139, 155>>, e |-> -56]
    @@ <<[m |-> <<0, 0, 0, 0, 0, 128>>, e |-> -53], [m |-> <<0, 0, 0, 0, 0, 128>>, e |-> -54]>>
          :> [m |-> <<483, 136, 130, 442, 124, 156>>, e |-> -56]
    @@ <<[m |-> <<0, 0, 0, 0, 0, 128>>, e |-> -53], [m |-> <<0, 0, 0, 0, 0, 128>>, e |-> -53]>>
          :> [m |-> <<105, 450, 94, 79, 112, 157>>, e |-> -56]
    @@ <<[m |-> <<0, 0, 0, 0, 0, 128>>, e |-> -53], [m |-> <<0, 0, 0, 0, 0, 192>>, e |-> -53]>>
          :> [m |-> <<380, 209, 399, 29, 101, 158>>, e |-> -56]
    @@ <<[m |-> <<0, 0, 0, 0, 0, 128>>, e |-> -53], [m |-> <<0, 0, 0, 0, 0, 128>>, e |-> -52]>>
          :> [m |-> <<186, 490, 237, 293, 91, 159>>, e |-> -56]
    @@ <<[m |-> <<341, 170, 341, 170, 341, 170>>, e |-> -53], [m |-> <<>>, e |-> 0]>>
          :> [m |-> <<168, 500, 105, 440, 338, 233>>, e |-> -56]
    @@ <<[m |-> <<341, 170, 341, 170, 341, 170>>, e |-> -53], [m |-> <<341, 170, 341, 170, 341, 170>>, e |-> -54]>>
          :> [m |-> <<144, 196, 392, 499, 246, 235>>, e |-> -56]
    @@ <<[m |-> <<341, 170, 341, 170, 341, 170>>, e |-> -53], [m |-> <<341, 170, 341, 170, 341, 170>>, e |-> -53]>>
          :> [m |-> <<379, 245, 391, 169, 158, 237>>, e |-> -56]
    @@ <<[m |-> <<341, 170, 341, 170, 341, 170>>, e |-> -53], [m |-> <<0, 0, 0, 0, 0, 128>>, e |-> -52]>>
          :> [m |-> <<472, 365, 488, 468, 72, 239>>, e |-> -56]
    @@ <<[m |-> <<0, 0, 0, 0, 0, 192>>, e |-> -53], [m |-> <<>>, e |-> 0]>>
          :> [m |-> <<408, 369, 301, 144, 21, 136>>, e |-> -55]
    @@ <<[m |-> <<0, 0, 0, 0, 0, 192>>, e |-> -53], [m |-> <<0, 0, 0, 0, 0, 128>>, e |-> -54]>>
          :> [m |-> <<366, 495, 323, 271, 413, 136>>, e |-> -55]
    @@ <<[m |-> <<0, 0, 0, 0, 0, 192>>, e |-> -53], [m |-> <<0, 0, 0, 0, 0, 128>>, e |-> -53]>>
          :> [m |-> <<147, 396, 405, 344, 294, 137>>, e |-> -55]
    @@ <<[m |-> <<0, 0, 0, 0, 0, 192>>, e |-> -53], [m |-> <<0, 0, 0, 0, 0, 192>>, e |-> -53]>>
          :> [m |-> <<503, 367, 240, 362, 176, 138>>, e |-> -55]
    @@ <<[m |-> <<0, 0, 0, 0, 0, 192>>, e |-> -53], [m |-> <<0, 0, 0, 0, 0, 128>>, e |-> -52]>>
          :> [m |-> <<113, 331, 32, 323, 59, 139>>, e |-> -55]
    @@ <<[m |-> <<0, 0, 0, 0, 0, 128>>, e |-> -52], [m |-> <<>>, e |-> 0]>>
          :> [m |-> <<311, 119, 395, 198, 181, 188>>, e |-> -55]
    @@ <<[m |-> <<0, 0, 0, 0, 0, 128>>, e |-> -52], [m |-> <<0, 0, 0, 0, 0, 128>>, e |-> -54]>>
          :> [m |-> <<480, 481, 138, 448, 151, 189>>, e |-> -55]
    @@ <<[m |-> <<0, 0, 0, 0, 0, 128>>, e |-> -52], [m |-> <<341, 170, 341, 170, 341, 170>>, e |-> -54]>>
          :> [m |-> <<99, 312, 417, 428, 312, 189>>, e |-> -55]
    @@ <<[m |-> <<0, 0, 0, 0, 0, 128>>, e |-> -52], [m |-> <<0, 0, 0, 0, 0, 128>>, e |-> -53]>>
          :> [m |-> <<413, 112, 146, 491, 122, 190>>, e |-> -55]
    @@ <<[m |-> <<0, 0, 0, 0, 0, 128>>, e |-> -52], [m |-> <<341, 170, 341, 170, 341, 170>>, e |-> -53]>>
          :> [m |-> <<102, 429, 86, 176, 445, 190>>, e |-> -55]
    @@ <<[m |-> <<0, 0, 0, 0, 0, 128>>, e |-> -52], [m |-> <<0, 0, 0, 0, 0, 192>>, e |-> -53]>>
          :> [m |-> <<105, 289, 374, 324, 94, 191>>, e |-> -55]
    @@ <<[m |-> <<0, 0, 0, 0, 0, 128>>, e |-> -52], [m |-> <<0, 0, 0, 0, 0, 128>>, e |-> -52]>>
          :> [m |-> <<395, 268, 270, 457, 66, 192>>, e |-> -55]
    @@ <<[m |-> <<0, 0, 0, 0, 0, 128>>, e |-> -52], [m |-> <<0, 0, 0, 0, 0, 128>>, e |-> -51]>>
          :> [m |-> <<77, 190, 348, 336, 473, 195>>, e |-> -55]
    @@ <<[m |-> <<0, 0, 0, 0, 0, 128>>, e |-> -52], [m |-> <<0, 0, 0, 0, 0, 192>>, e |-> -51]>>
          :> [m |-> <<65, 209, 281, 151, 377, 199>>, e |-> -55]
    @@ <<[m |-> <<0, 0, 0, 0, 0, 128>>, e |-> -52], [m |-> <<0, 0, 0, 0, 0, 128>>, e |-> -50]>>
          :> [m |-> <<179, 169, 43, 218, 289, 203>>, e |-> -55]
    @@ <<[m |-> <<0, 0, 0, 0, 0, 128>>, e |-> -51], [m |-> <<>>, e |-> 0]>>
          :> [m |-> <<460, 448, 239, 340, 298, 138>>, e |-> -54]
    @@ <<[m |-> <<0, 0, 0, 0, 0, 128>>, e |-> -51], [m |-> <<0, 0, 0, 0, 0, 128>>, e |-> -52]>>
          :> [m |-> <<89, 132, 310, 47, 489, 139>>, e |-> -54]
    @@ <<[m |-> <<0, 0, 0, 0, 0, 128>>, e |-> -51], [m |-> <<0, 0, 0, 0, 0, 128>>, e |-> -51]>>
          :> [m |-> <<161, 63, 353, 99, 153, 141>>, e |-> -54]
    @@ <<[m |-> <<0, 0, 0, 0, 0, 128>>, e |-> -51], [m |-> <<0, 0, 0, 0, 0, 192>>, e |-> -51]>>
          :> [m |-> <<172, 32, 325, 432, 314, 142>>, e |-> -54]
    @@ <<[m |-> <<0, 0, 0, 0, 0, 128>>, e |-> -51], [m |-> <<0, 0, 0, 0, 0, 128>>, e |-> -50]>>
          :> [m |-> <<458, 282, 478, 475, 461, 143>>, e |-> -54]
    @@ <<[m |-> <<0, 0, 0, 0, 0, 128>>, e |-> -51], [m |-> <<0, 0, 0, 0, 0, 192>>, e |-> -50]>>
          :> [m |-> <<61, 37, 383, 510, 199, 146>>, e |-> -54]
    @@ <<[m |-> <<0, 0, 0, 0, 0, 128>>, e |-> -51], [m |-> <<0, 0, 0, 0, 0, 128>>, e |-> -49]>>
          :> [m |-> <<105, 439, 58, 355, 390, 148>>, e |-> -54]
    @@ <<[m |-> <<0, 0, 0, 0, 0, 192>>, e |-> -51], [m |-> <<>>, e |-> 0]>>
          :> [m |-> <<197, 67, 410, 220, 214, 229>>, e |-> -55]
    @@ <<[m |-> <<0, 0, 0, 0, 0, 192>>, e |-> -51], [m |-> <<0, 0, 0, 0, 0, 128>>, e |-> -52]>>
          :> [m |-> <<288, 93, 24, 476, 196, 229>>, e |-> -55]
    @@ <<[m |-> <<0, 0, 0, 0, 0, 192>>, e |-> -51], [m |-> <<0, 0, 0, 0, 0, 128>>, e |-> -51]>>
          :> [m |-> <<4, 361, 463, 460, 144, 229>>, e |-> -55]
    @@ <<[m |-> <<0, 0, 0, 0, 0, 192>>, e |-> -51], [m |-> <<0, 0, 0, 0, 0, 192>>, e |-> -51]>>
          :> [m |-> <<9, 339, 279, 31, 59, 229>>, e |-> -55]
    @@ <<[m |-> <<0, 0, 0, 0, 0, 192>>, e |-> -51], [m |-> <<0, 0, 0, 0, 0, 128>>, e |-> -50]>>
          :> [m |-> <<348, 486, 155, 72, 452, 228>>, e |-> -55]
    @@ <<[m |-> <<0, 0, 0, 0, 0, 192>>, e |-> -51], [m |-> <<0, 0, 0, 0, 0, 192>>, e |-> -50]>>
          :> [m |-> <<425, 101, 426, 510, 117, 228>>, e |-> -55]
    @@ <<[m |-> <<0, 0, 0, 0, 0, 192>>, e |-> -51], [m |-> <<0, 0, 0, 0, 0, 144>>, e |-> -49]>>
          :> [m |-> <<407, 29, 447, 98, 411, 226>>, e |-> -55]
    @@ <<[m |-> <<0, 0, 0, 0, 0, 192>>, e |-> -51], [m |-> <<0, 0, 0, 0, 0, 192>>, e |-> -49]>>
          :> [m |-> <<109, 74, 447, 467, 446, 224>>, e |-> -55]
    @@ <<[m |-> <<0, 0, 0, 0, 0, 128>>, e |-> -50], [m |-> <<>>, e |-> 0]>>
          :> [m |-> <<244, 158, 8, 183, 21, 150>>, e |-> -55]
    @@ <<[m |-> <<0, 0, 0, 0, 0, 128>>, e |-> -50], [m |-> <<0, 0, 0, 0, 0, 128>>, e |-> -52]>>
          :> [m |-> <<277, 484, 338, 327, 269, 148>>, e |-> -55]
    @@ <<[m |-> <<0, 0, 0, 0, 0, 128>>, e |-> -50], [m |-> <<0, 0, 0, 0, 0, 128>>, e |-> -51]>>
          :> [m |-> <<332, 508, 27, 317, 503, 146>>, e |-> -55]
    @@ <<[m |-> <<0, 0, 0, 0, 0, 128>>, e |-> -50], [m |-> <<0, 0, 0, 0, 0, 192>>, e |-> -51]>>
          :> [m |-> <<52, 336, 350, 170, 212, 145>>, e |-> -55]
    @@ <<[m |-> <<0, 0, 0, 0, 0, 128>>, e |-> -50], [m |-> <<0, 0, 0, 0, 0, 128>>, e |-> -50]>>
          :> [m |-> <<284, 487, 18, 407, 420, 143>>, e |-> -55]
    @@ <<[m |-> <<0, 0, 0, 0, 0, 128>>, e |-> -50], [m |-> <<0, 0, 0, 0, 0, 192>>, e |-> -50]>>
          :> [m |-> <<316, 461, 459, 451, 292, 140>>, e |-> -55]
    @@ <<[m |-> <<0, 0, 0, 0, 0, 128>>, e |-> -50], [m |-> <<0, 0, 0, 0, 0, 128>>, e |-> -49]>>
          :> [m |-> <<203, 152, 107, 238, 127, 137>>, e |-> -55]
    @@ <<[m |-> <<0, 0, 0, 0, 0, 192>>, e |-> -50], [m |-> <<>>, e |-> 0]>>
          :> [m |-> <<367, 295, 461, 389, 385, 182>>, e |-> -57]
    @@ <<[m |-> <<0, 0, 0, 0, 0, 192>>, e |-> -50], [m |-> <<0, 0, 0, 0, 0, 128>>, e |-> -51]>>
          :> [m |-> <<288, 193, 231, 266, 4, 172>>, e |-> -57]
    @@ <<[m |-> <<0, 0, 0, 0, 0, 192>>, e |-> -50], [m |-> <<0, 0, 0, 0, 0, 192>>, e |-> -51]>>
          :> [m |-> <<333, 452, 30, 107, 411, 166>>, e |-> -57]
    @@ <<[m |-> <<0, 0, 0, 0, 0, 192>>, e |-> -50], [m |-> <<0, 0, 0, 0, 0, 128>>, e |-> -50]>>
          :> [m |-> <<125, 41, 325, 73, 363, 161>>, e |-> -57]
    @@ <<[m |-> <<0, 0, 0, 0, 0, 192>>, e |-> -50], [m |-> <<0, 0, 0, 0, 0, 192>>, e |-> -50]>>
          :> [m |-> <<145, 24, 409, 102, 439, 151>>, e |-> -57]
    @@ <<[m |-> <<0, 0, 0, 0, 0, 192>>, e |-> -50], [m |-> <<0, 0, 0, 0, 0, 128>>, e |-> -49]>>
          :> [m |-> <<50, 325, 310, 300, 232, 142>>, e |-> -57]
    @@ <<[m |-> <<0, 0, 0, 0, 0, 192>>, e |-> -50], [m |-> <<0, 0, 0, 0, 0, 144>>, e |-> -49]>>
          :> [m |-> <<500, 35, 245, 431, 470, 137>>, e |-> -57]
    @@ <<[m |-> <<0, 0, 0, 0, 0, 192>>, e |-> -50], [m |-> <<0, 0, 0, 0, 0, 192>>, e |-> -49]>>
          :> [m |-> <<348, 294, 143, 365, 487, 249>>, e |-> -58]
    @@ <<[m |-> <<0, 0, 0, 0, 0, 128>>, e |-> -49], [m |-> <<>>, e |-> 0]>>
          :> [m |-> <<426, 19, 260, 32, 450, 175>>, e |-> -59]
    @@ <<[m |-> <<0, 0, 0, 0, 0, 128>>, e |-> -49], [m |-> <<0, 0, 0, 0, 0, 128>>, e |-> -51]>>
          :> [m |-> <<8, 400, 380, 222, 24, 159>>, e |-> -59]
    @@ <<[m |-> <<0, 0, 0, 0, 0, 128>>, e |-> -49], [m |-> <<0, 0, 0, 0, 0, 128>>, e |-> -50]>>
          :> [m |-> <<331, 110, 261, 304, 338, 143>>, e |-> -59]
    @@ <<[m |-> <<0, 0, 0, 0, 0, 128>>, e |-> -49], [m |-> <<0, 0, 0, 0, 0, 192>>, e |-> -50]>>
          :> [m |-> <<437, 59, 241, 91, 317, 129>>, e |-> -59]
    @@ <<[m |-> <<0, 0, 0, 0, 0, 128>>, e |-> -49], [m |-> <<0, 0, 0, 0, 0, 128>>, e |-> -49]>>
          :> [m |-> <<248, 40, 312, 48, 333, 233>>, e |-> -60]
    @@ <<[m |-> <<0, 0, 0, 0, 0, 144>>, e |-> -49], [m |-> <<>>, e |-> 0]>>
          :> [m |-> <<195, 65, 449, 78, 398, 163>>, e |-> -60]
    @@ <<[m |-> <<0, 0, 0, 0, 0, 144>>, e |-> -49], [m |-> <<0, 0, 0, 0, 0, 192>>, e |-> -51]>>
          :> [m |-> <<123, 122, 67, 119, 316, 136>>, e |-> -60]
    @@ <<[m |-> <<0, 0, 0, 0, 0, 144>>, e |-> -49], [m |-> <<0, 0, 0, 0, 0, 192>>, e |-> -50]>>
          :> [m |-> <<131, 313, 374, 23, 176, 227>>, e |-> -61]
    @@ <<[m |-> <<0, 0, 0, 0, 0, 144>>, e |-> -49], [m |-> <<0, 0, 0, 0, 0, 144>>, e |-> -49]>>
          :> [m |-> <<303, 188, 508, 226, 361, 188>>, e |-> -61]
    @@ <<[m |-> <<0, 0, 0, 0, 0, 144>>, e |-> -49], [m |-> <<0, 0, 0, 0, 0, 192>>, e |-> -49]>>
          :> [m |-> <<131, 252, 64, 436, 142, 156>>, e |-> -61]
    @@ <<[m |-> <<0, 0, 0, 0, 0, 192>>, e |-> -49], [m |-> <<>>, e |-> 0]>>
          :> [m |-> <<28, 26, 171, 184, 479, 231>>, e |-> -64]
    @@ <<[m |-> <<0, 0, 0, 0, 0, 192>>, e |-> -49], [m |-> <<0, 0, 0, 0, 0, 192>>, e |-> -51]>>
          :> [m |-> <<28, 330, 100, 228, 420, 176>>, e |-> -64]
    @@ <<[m |-> <<0, 0, 0, 0, 0, 192>>, e |-> -49], [m |-> <<0, 0, 0, 0, 0, 192>>, e |-> -50]>>
          :> [m |-> <<209, 395, 490, 354, 235, 134>>, e |-> -64]
    @@ <<[m |-> <<0, 0, 0, 0, 0, 192>>, e |-> -49], [m |-> <<0, 0, 0, 0, 0, 144>>, e |-> -49]>>
          :> [m |-> <<370, 363, 327, 196, 2, 204>>, e |-> -65]
    @@ <<[m |-> <<0, 0, 0, 0, 0, 192>>, e |-> -49], [m |-> <<0, 0, 0, 0, 0, 192>>, e |-> -49]>>
          :> [m |-> <<13, 107, 480, 350, 208, 154>>, e |-> -65]
\* the value of 1.15 + np.sin(0.15 * t) at t
SinePlus ==
       [m |-> <<>>, e |-> 0]
          :> [m |-> <<102, 307, 409, 204, 102, 147>>, e |-> -52]
    @@ [m |-> <<0, 0, 0, 0, 0, 128>>, e |-> -54]
          :> [m |-> <<157, 344, 55, 217, 511, 151>>, e |-> -52]
    @@ [m |-> <<341, 170, 341, 170, 341, 170>>, e |-> -54]
          :> [m |-> <<392, 304, 223, 427, 305, 153>>, e |-> -52]
    @@ [m |-> <<0, 0, 0, 0, 0, 128>>, e |-> -53]
          :> [m |-> <<29, 277, 290, 508, 404, 156>>, e |-> -52]
    @@ [m |-> <<341, 170, 341, 170, 341, 170>>, e |-> -53]
          :> [m |-> <<281, 401, 199, 42, 501, 159>>, e |-> -52]
    @@ [m |-> <<0, 0, 0, 0, 0, 192>>, e |-> -53]
          :> [m |-> <<278, 217, 416, 336, 291, 161>>, e |-> -52]
    @@ [m |-> <<0, 0, 0, 0, 0, 128>>, e |-> -52]
          :> [m |-> <<10, 306, 232, 500, 167, 166>>, e |-> -52]
    @@ [m |-> <<0, 0, 0, 0, 0, 160>>, e |-> -52]
          :> [m |-> <<189, 226, 279, 269, 30, 171>>, e |-> -52]
    @@ [m |-> <<341, 170, 341, 170, 341, 170>>, e |-> -52]
          :> [m |-> <<189, 272, 179, 201, 322, 172>>, e |-> -52]
    @@ [m |-> <<0, 0, 0, 0, 0, 192>>, e |-> -52]
          :> [m |-> <<234, 72, 29, 460, 387, 175>>, e |-> -52]
    @@ [m |-> <<170, 341, 170, 341, 170, 213>>, e |-> -52]
          :> [m |-> <<277, 100, 65, 136, 444, 178>>, e |-> -52]
    @@ [m |-> <<0, 0, 0, 0, 0, 224>>, e |-> -52]
          :> [m |-> <<179, 120, 165, 364, 212, 180>>, e |-> -52]
    @@ [m |-> <<0, 0, 0, 0, 0, 128>>, e |-> -51]
          :> [m |-> <<243, 138, 245, 313, 13, 185>>, e |-> -52]
    @@ [m |-> <<0, 0, 0, 0, 0, 192>>, e |-> -51]
          :> [m |-> <<495, 91, 121, 154, 448, 202>>, e |-> -52]
    @@ [m |-> <<0, 0, 0, 0, 0, 128>>, e |-> -50]
          :> [m |-> <<274, 131, 142, 414, 242, 219>>, e |-> -52]
    @@ [m |-> <<0, 0, 0, 0, 0, 160>>, e |-> -50]
          :> [m |-> <<492, 278, 113, 142, 230, 234>>, e |-> -52]
    @@ [m |-> <<0, 0, 0, 0, 0, 192>>, e |-> -50]
          :> [m |-> <<134, 157, 165, 262, 238, 247>>, e |-> -52]
    @@ [m |-> <<0, 0, 0, 0, 0, 224>>, e |-> -50]
          :> [m |-> <<483, 119, 112, 473, 58, 129>>, e |-> -51]
    @@ [m |-> <<0, 0, 0, 0, 0, 128>>, e |-> -49]
          :> [m |-> <<164, 228, 238, 131, 128, 133>>, e |-> -51]
    @@ [m |-> <<0, 0, 0, 0, 0, 144>>, e |-> -49]
          :> [m |-> <<418, 213, 476, 359, 23, 136>>, e |-> -51]
    @@ [m |-> <<0, 0, 0, 0, 0, 160>>, e |-> -49]
          :> [m |-> <<150, 295, 127, 59, 225, 137>>, e |-> -51]
    @@ [m |-> <<0, 0, 0, 0, 0, 192>>, e |-> -49]
          :> [m |-> <<175, 316, 232, 122, 474, 135>>, e |-> -51]
    @@ [m |-> <<0, 0, 0, 0, 0, 224>>, e |-> -49]
          :> [m |-> <<498, 263, 203, 432, 432, 128>>, e |-> -51]
    @@ [m |-> <<0, 0, 0, 0, 0, 240>>, e |-> -49]
          :> [m |-> <<58, 364, 499, 104, 406, 246>>, e |-> -52]
    @@ [m |-> <<0, 0, 0, 0, 0, 128>>, e |-> -48]
          :> [m |-> <<308, 39, 82, 284, 337, 233>>, e |-> -52]
    @@ [m |-> <<0, 0, 0, 0, 0, 144>>, e |-> -48]
          :> [m |-> <<43, 456, 475, 85, 463, 201>>, e |-> -52]
    @@ [m |-> <<0, 0, 0, 0, 0, 168>>, e |-> -48]
          :> [m |-> <<24, 325, 199, 216, 63, 146>>, e |-> -52]
    @@ [m |-> <<0, 0, 0, 0, 0, 192>>, e |-> -48]
          :> [m |-> <<471, 49, 181, 389, 58, 181>>, e |-> -53]

\* G(t, tau): the Gamma distribution function, 0 for t <= 0
G(t, tau) ==
    IF t = FZero THEN FZero ELSE GammaCdf[<<t, tau>>]

\* g(t, tau): the Gamma density, 0 for t <= 0
g(t, tau) ==
    IF t = FZero THEN FZero ELSE GammaPdf[<<t, tau>>]

\* R(t)
R(t) == SinePlus[t]

\* h(t, tau) = 1 - G(t - tau, tau); where t - tau <= 0 the distribution
\* function is 0 and h is 1 - 0.0
h(t, tau) ==
    IF hker.form = "notebook"
    THEN IF FLess(tau, t)
         THEN FSub(FOfInt(1), G(FSub(t, tau), tau))
         ELSE FOfInt(1)
    ELSE hker.c0 + hker.ct * t + hker.ctau * tau

hRaises(t, tau) ==
    \/ hker.dom = "min" /\ t - tau < hker.lim
    \/ hker.dom = "max" /\ t - tau > hker.lim

\* lam(u, tau) = R(u + tau) * g(u, tau)
lam(u, tau) ==
    IF lker.form = "notebook"
    THEN FMul(R(FAdd(u, tau)), g(u, tau))
    ELSE lker.c0 + lker.cu * u + lker.ctau * tau

lamRaises(u, tau) == lker.dom = "max" /\ u + tau > lker.lim

\* a vectorised call raises when any element is outside the domain
hVecRaises(A, B) == \E a \in DOMAIN A : \E b \in DOMAIN A[a] : hRaises(A[a][b], B[a][b])
hVec(A, B) == [a \in DOMAIN A |-> [b \in DOMAIN A[a] |-> h(A[a][b], B[a][b])]]

lamVecRaises(A, B) == \E a \in DOMAIN A : \E b \in DOMAIN A[a] : lamRaises(A[a][b], B[a][b])
lamVec(A, B) == [a \in DOMAIN A |-> [b \in DOMAIN A[a] |-> lam(A[a][b], B[a][b])]]

Slopes == {0, 1}
HLims == {0, 2}
LLims == {1, 2, 4}

HKernelsTotal ==
    {[form |-> "affine", c0 |-> a, ct |-> b, ctau |-> c, dom |-> "total", lim |-> 0] :
        a \in 0..MaxCoef, b \in Slopes, c \in Slopes}

HKernelsPartial ==
    {[form |-> "affine", c0 |-> a, ct |-> b, ctau |-> c, dom |-> d, lim |-> m] :
        a \in 0..MaxCoef, b \in Slopes, c \in Slopes, d \in {"max"}, m \in HLims}
    \cup {[form |-> "affine", c0 |-> a, ct |-> b, ctau |-> c, dom |-> "min", lim |-> 0] :
        a \in 0..MaxCoef, b \in Slopes, c \in Slopes}

LKernelsTotal ==
    {[form |-> "affine", c0 |-> a, cu |-> b, ctau |-> c, dom |-> "total", lim |-> 0] :
        a \in 0..MaxCoef, b \in Slopes, c \in Slopes}

LKernelsPartial ==
    {[form |-> "affine", c0 |-> a, cu |-> b, ctau |-> c, dom |-> "max", lim |-> m] :
        a \in 0..MaxCoef, b \in Slopes, c \in Slopes, m \in LLims}

\* the notebook's kernels
HNotebook ==
    [form |-> "notebook", c0 |-> 0, ct |-> 0, ctau |-> 0, dom |-> "total", lim |-> 0]
LNotebook ==
    [form |-> "notebook", c0 |-> 0, cu |-> 0, ctau |-> 0, dom |-> "total", lim |-> 0]

\* --------------------------------------------------------------- inputs
\* T / N of "Delta = 100 / N" when N divides T
ExactDiv(t, d) ==
    LET m == IF t < 0 THEN 0 - t ELSE t
    IN  CHOOSE q \in (0 - m)..m : q * d = t

Horizons(nn) == IF nn = 0 THEN 0..1 ELSE {nn * d : d \in (0 - 1)..MaxDelta}

\* the horizons run with the notebook's kernels: T = 1, which N >= 2 does
\* not divide, and the multiples of N
NotebookHorizons(nn) == {1} \cup {nn * d : d \in 1..MaxDelta}

Init ==
    /\ N \in (0 - 2)..MaxN
    /\ \/ /\ T \in Horizons(N)
          /\ \/ hker \in HKernelsTotal /\ lker \in LKernelsTotal \cup LKernelsPartial
             \/ hker \in HKernelsPartial /\ lker \in LKernelsTotal
       \/ /\ N >= 1
          /\ T \in NotebookHorizons(N)
          /\ hker = HNotebook
          /\ lker = LNotebook
    /\ pc = "config"
    /\ err = "none"
    /\ defined = {"N"}
    /\ Delta = 0
    /\ n = 0
    /\ i = 0
    /\ fhat = <<>> /\ f_loop = <<>>
    /\ A_H = <<>> /\ B_H = <<>> /\ H = <<>>
    /\ A_L = <<>> /\ B_L = <<>> /\ L = <<>>
    /\ F = <<>> /\ f_vec = <<>>
    /\ grid = <<>>
    /\ wr1 = {} /\ wr2 = {}
    /\ reads = {}
    /\ rowi = <<>>

\* an uncaught exception ends the run; nothing else changes
Raise(e) == pc' = "error" /\ err' = e

\* ------------------------------------------------------------ "Delta = 100 / N"
Configure ==
    /\ pc = "config"
    /\ IF N = 0
       THEN /\ Raise("ZeroDivisionError")
            /\ UNCHANGED <<Delta, defined>>
       ELSE /\ Delta' = IF Exact THEN ExactDiv(T, N) ELSE FDivInt(T, N)
            /\ defined' = defined \cup {"Delta"}
            /\ pc' = "alloc"
            /\ err' = err
    /\ UNCHANGED <<N, T, hker, lker, fhat, n, i, f_loop,
                   A_H, B_H, H, A_L, B_L, L, F, f_vec, wr1, wr2, grid, rowi, reads>>

\* ---------------------------------------------------------- Algorithm 1
\* fhat = np.zeros(shape = (N + 1, N + 1)); a negative dimension raises
AllocFhat ==
    /\ pc = "alloc"
    /\ IF N + 1 < 0
       THEN /\ Raise("ValueError")
            /\ UNCHANGED <<fhat, defined, n, i>>
       ELSE /\ fhat' = Zeros(N + 1, N + 1)
            /\ defined' = defined \cup {"fhat"}
            /\ n' = 0
            /\ i' = 0
            /\ pc' = IF N + 1 > 0 THEN "loop1" ELSE "diag1"
            /\ err' = err
    /\ UNCHANGED <<N, T, hker, lker, Delta, f_loop,
                   A_H, B_H, H, A_L, B_L, L, F, f_vec, wr1, wr2, grid, rowi, reads>>

\* mutant: the offsets taken as np.arange(0, i)
Alg1Ks_FromZero(ii) == Arange(0, ii)

\* the offsets np.arange(1, i + 1) of the inner sum
Alg1Ks(ii) == Arange(1, ii + 1)

\* mutant: the two indices of the selection swapped, fhat[i - k, n]
Alg1Sel_Transposed(nn, ii, cols) ==
    [k \in DOMAIN Alg1Ks(ii) |-> <<PyIndex(ii - Alg1Ks(ii)[k], cols), nn>>]

\* mutant: right-endpoint rule, the selection shifted to i - k + 1
Alg1Sel_RightEndpoint(nn, ii, cols) ==
    [k \in DOMAIN Alg1Ks(ii) |-> <<nn, PyIndex(ii - Alg1Ks(ii)[k] + 1, cols)>>]

\* the index pairs that fhat[n, i - np.arange(1, i + 1)] selects in an array
\* with cols columns
Alg1Sel(nn, ii, cols) ==
    [k \in DOMAIN Alg1Ks(ii) |-> <<nn, PyIndex(ii - Alg1Ks(ii)[k], cols)>>]

\* the entries of fhat the assignment to fhat[n, i] reads
Alg1Reads(nn, ii) ==
    {Alg1Sel(nn, ii, N + 1)[k] : k \in DOMAIN Alg1Sel(nn, ii, N + 1)}

\* fhat[n, i - ks] * lam(Delta * ks, (n - i) * Delta) * Delta
Alg1Terms(f, nn, ii) ==
    LET ks  == Alg1Ks(ii)
        sel == Alg1Sel(nn, ii, Cols(f))
    IN  [k \in DOMAIN ks |->
            TimesDelta(Times(f[sel[k][1]][sel[k][2]],
                             lam(StepTimes(Delta, ks[k]), StepTimes(Delta, nn - ii))), Delta)]

\* mutant: the lag of the forcing term kept at n * Delta for every i
Alg1Value_FixedLag(f, nn, ii) ==
    IF ii = 0
    THEN h(StepTimes(Delta, nn), StepTimes(Delta, nn))
    ELSE Plus(h(StepTimes(Delta, nn), StepTimes(Delta, nn)), NpSum(Alg1Terms(f, nn, ii)))

\* mutant: the base case evaluated at the one-based grid point (n + 1) * Delta
Alg1Value_OneBased(f, nn, ii) ==
    IF ii = 0
    THEN h(StepTimes(Delta, nn + 1), StepTimes(Delta, nn + 1))
    ELSE Plus(h(StepTimes(Delta, nn), StepTimes(Delta, nn - ii)), NpSum(Alg1Terms(f, nn, ii)))

\* the value assigned to fhat[n, i]
Alg1Value(f, nn, ii) ==
    IF ii = 0
    THEN h(StepTimes(Delta, nn), StepTimes(Delta, nn))
    ELSE Plus(h(StepTimes(Delta, nn), StepTimes(Delta, nn - ii)), NpSum(Alg1Terms(f, nn, ii)))

\* some kernel call of the assignment to fhat[n, i] raises
Alg1Raises(nn, ii) ==
    IF ii = 0
    THEN hRaises(StepTimes(Delta, nn), StepTimes(Delta, nn))
    ELSE \/ hRaises(StepTimes(Delta, nn), StepTimes(Delta, nn - ii))
         \/ \E k \in DOMAIN Alg1Ks(ii) :
                lamRaises(StepTimes(Delta, Alg1Ks(ii)[k]), StepTimes(Delta, nn - ii))

\* mutant: the outer loop written as range(N)
Alg1RowCount_Short == N

\* the bound of "for n in range(N + 1)"
Alg1RowCount == N + 1

\* the bound of "for i in range(n + 1)"
Alg1ColCount(nn) == nn + 1

\* one pass of the body of "for n ...: for i in range(n + 1):"
Alg1Step ==
    /\ pc = "loop1"
    /\ IF Alg1Raises(n, i)
       THEN /\ Raise("KernelEvaluationError")
            /\ UNCHANGED <<fhat, wr1, n, i, reads>>
       ELSE /\ fhat' = [fhat EXCEPT ![n][i] = Alg1Value(fhat, n, i)]
            /\ wr1' = wr1 \cup {<<n, i>>}
            /\ reads' = IF i = 0 THEN {} ELSE Alg1Reads(n, i)
            /\ IF i + 1 < Alg1ColCount(n)
               THEN n' = n /\ i' = i + 1 /\ pc' = "loop1"
               ELSE IF n + 1 < Alg1RowCount
                    THEN n' = n + 1 /\ i' = 0 /\ pc' = "loop1"
                    ELSE n' = n /\ i' = i /\ pc' = "diag1"
            /\ err' = err
    /\ UNCHANGED <<N, T, hker, lker, defined, Delta, f_loop,
                   A_H, B_H, H, A_L, B_L, L, F, f_vec, wr2, grid, rowi>>

\* f_loop = np.diagonal(fhat)
Alg1Diag ==
    /\ pc = "diag1"
    /\ f_loop' = Diagonal(fhat)
    /\ reads' = {<<k, k>> : k \in DOMAIN Diagonal(fhat)}
    /\ defined' = defined \cup {"f_loop"}
    /\ pc' = "buildH"
    /\ UNCHANGED <<N, T, hker, lker, err, Delta, fhat, n, i,
                   A_H, B_H, H, A_L, B_L, L, F, f_vec, wr1, wr2, grid, rowi>>

\* ---------------------------------------------------------- Algorithm 2
\* mutant: A_H built without np.transpose
MakeA_H_NoTranspose == Scale(Delta, Tile(Arange(0, N + 1), N + 1))

\* A_H = Delta * np.transpose(np.tile(np.arange(0, N + 1), (N + 1, 1)))
MakeA_H == Scale(Delta, Transpose(Tile(Arange(0, N + 1), N + 1), N + 1))

\* mutant: the lags arranged as a Hankel matrix, constant along anti-diagonals
MakeB_H_Hankel ==
    Scale(Delta, [a \in 0..N |-> [b \in 0..N |->
        IF a + b <= N THEN Arange(0, N + 1)[a + b] ELSE 0]])

\* B_H = Delta * toeplitz(np.arange(0, N + 1))
MakeB_H == Scale(Delta, toeplitz(Arange(0, N + 1)))

\* H = h(A_H, B_H)
BuildH ==
    /\ pc = "buildH"
    /\ A_H' = MakeA_H
    /\ B_H' = MakeB_H
    /\ IF hVecRaises(MakeA_H, MakeB_H)
       THEN /\ Raise("KernelEvaluationError")
            /\ defined' = defined \cup {"A_H", "B_H"}
            /\ H' = H
       ELSE /\ H' = hVec(MakeA_H, MakeB_H)
            /\ defined' = defined \cup {"A_H", "B_H", "H"}
            /\ pc' = "buildL"
            /\ err' = err
    /\ UNCHANGED <<N, T, hker, lker, Delta, fhat, n, i, f_loop,
                   A_L, B_L, L, F, f_vec, wr1, wr2, grid, rowi, reads>>

\* A_L = A_H[0 : N, 0 : N]
MakeA_L == Slice2(A_H, 0, N, 0, N)

\* mutant: B_L built without np.flip
MakeB_L_NoFlip == Scale(Delta, Tile(Arange(1, N + 1), N))

\* B_L = Delta * np.tile(np.flip(np.arange(1, N + 1)), (N, 1))
MakeB_L == Scale(Delta, Tile(Flip(Arange(1, N + 1)), N))

\* mutant: L built without the quadrature weight Delta
MakeL_Unweighted(BL, AL) == lamVec(BL, AL)

\* L = lam(B_L, A_L) * Delta
MakeL(BL, AL) ==
    [a \in DOMAIN BL |-> [b \in DOMAIN BL[a] |-> TimesDelta(lamVec(BL, AL)[a][b], Delta)]]

\* np.tile with a negative repetition count raises
BuildL ==
    /\ pc = "buildL"
    /\ A_L' = MakeA_L
    /\ IF N < 0
       THEN /\ Raise("ValueError")
            /\ defined' = defined \cup {"A_L"}
            /\ UNCHANGED <<B_L, L>>
       ELSE /\ B_L' = MakeB_L
            /\ IF lamVecRaises(MakeB_L, MakeA_L)
               THEN /\ Raise("KernelEvaluationError")
                    /\ defined' = defined \cup {"A_L", "B_L"}
                    /\ L' = L
               ELSE /\ L' = MakeL(MakeB_L, MakeA_L)
                    /\ defined' = defined \cup {"A_L", "B_L", "L"}
                    /\ pc' = "initF"
                    /\ err' = err
    /\ UNCHANGED <<N, T, hker, lker, Delta, fhat, n, i, f_loop,
                   A_H, B_H, H, F, f_vec, wr1, wr2, grid, rowi, reads>>

\* the array after F = np.zeros(shape = (N + 1, N + 1)); F[:, 0] = hh[:, 0]
InitFValue(hh) == [a \in 0..N |-> [b \in 0..N |-> IF b = 0 THEN hh[a][0] ELSE Zero]]

\* F = np.zeros(shape = (N + 1, N + 1)); F[:, 0] = H[:, 0]
InitF ==
    /\ pc = "initF"
    /\ F' = InitFValue(H)
    /\ wr2' = {<<a, 0>> : a \in 0..N}
    /\ reads' = {}
    /\ defined' = defined \cup {"F"}
    /\ i' = 0
    /\ pc' = IF N > 0 THEN "loop2" ELSE "diag2"
    /\ UNCHANGED <<N, T, hker, lker, err, Delta, fhat, n, f_loop,
                   A_H, B_H, H, A_L, B_L, L, f_vec, wr1, grid, rowi>>

\* the prefix F[(i + 1) : (N + 1), 0 : (i + 1)]
FPrefix(f, ii) == Slice2(f, ii + 1, N + 1, 0, ii + 1)

\* mutant: the window taken from the left columns, L[0 : (N - i), 0 : (i + 1)]
LWindow_LeftColumns(ll, ii) == Slice2(ll, 0, N - ii, 0, ii + 1)

\* the window L[0 : (N - i), (N - i - 1) : (N + 1)]
LWindow(ll, ii) == Slice2(ll, 0, N - ii, N - ii - 1, N + 1)

\* the entries of F the prefix F[(i + 1) : (N + 1), 0 : (i + 1)] reads
Alg2Reads(f, ii) ==
    {<<a, b>> : a \in SliceIdx(ii + 1, N + 1, Rows(f)), b \in SliceIdx(0, ii + 1, Cols(f))}

\* numpy's broadcasting rule for one axis
Broadcastable(a, b) == a = b \/ a = 1 \/ b = 1
BroadcastLen(a, b) == IF a = 1 THEN b ELSE a
BIdx(k, len) == IF len = 1 THEN 0 ELSE k

\* X * Y, elementwise with broadcasting
MulRaises(X, Y) ==
    ~ (Broadcastable(Rows(X), Rows(Y)) /\ Broadcastable(Cols(X), Cols(Y)))
Mul(X, Y) ==
    [a \in 0..(BroadcastLen(Rows(X), Rows(Y)) - 1) |->
        [b \in 0..(BroadcastLen(Cols(X), Cols(Y)) - 1) |->
            Times(X[BIdx(a, Rows(X))][BIdx(b, Cols(X))],
                  Y[BIdx(a, Rows(Y))][BIdx(b, Cols(Y))])]]

\* np.sum(B, axis = -1)
RowSums(B) == [a \in DOMAIN B |-> NpSum(B[a])]

\* mutant: the column of H taken one row higher, H[i : N, i + 1]
HColumn_RowAbove(hh, ii) ==
    LET rs == SliceIdx(ii, N, Rows(hh))
    IN  [a \in 0..(Cardinality(rs) - 1) |-> hh[ii + a][ii + 1]]

\* H[(i + 1) : (N + 1), i + 1]
HColumn(hh, ii) ==
    LET rs == SliceIdx(ii + 1, N + 1, Rows(hh))
    IN  [a \in 0..(Cardinality(rs) - 1) |-> hh[ii + 1 + a][ii + 1]]

\* the rows that F[(i + 1) : (N + 1), i + 1] = ... assigns
Alg2Target(f, ii) == SliceIdx(ii + 1, N + 1, Rows(f))

\* the vector H[(i + 1) : (N + 1), i + 1] + np.sum(B, axis = -1)
Alg2Column(f, hh, ll, ii) ==
    LET s  == RowSums(Mul(FPrefix(f, ii), LWindow(ll, ii)))
        hc == HColumn(hh, ii)
    IN  [a \in 0..(BroadcastLen(Len0(hc), Len0(s)) - 1) |->
            Plus(hc[BIdx(a, Len0(hc))], s[BIdx(a, Len0(s))])]

\* a shape error in the body of the loop
Alg2Raises(f, hh, ll, ii) ==
    \/ MulRaises(FPrefix(f, ii), LWindow(ll, ii))
    \/ LET s  == RowSums(Mul(FPrefix(f, ii), LWindow(ll, ii)))
           hc == HColumn(hh, ii)
           m  == Cardinality(Alg2Target(f, ii))
       IN  \/ ~ Broadcastable(Len0(hc), Len0(s))
           \/ ~ (BroadcastLen(Len0(hc), Len0(s)) \in {1, m})

\* mutant: the column assigned in place, F[(i + 1) : (N + 1), i] = col
Alg2Assign_InPlace(f, col, ii) ==
    [a \in DOMAIN f |->
        IF a \in Alg2Target(f, ii)
        THEN [f[a] EXCEPT ![ii] = col[BIdx(a - (ii + 1), Len0(col))]]
        ELSE f[a]]

\* the array after F[(i + 1) : (N + 1), i + 1] = col
Alg2Assign(f, col, ii) ==
    [a \in DOMAIN f |->
        IF a \in Alg2Target(f, ii)
        THEN [f[a] EXCEPT ![ii + 1] = col[BIdx(a - (ii + 1), Len0(col))]]
        ELSE f[a]]

\* one pass of the body of "for i in range(N):"
Alg2Step ==
    /\ pc = "loop2"
    /\ IF Alg2Raises(F, H, L, i)
       THEN /\ Raise("ValueError")
            /\ UNCHANGED <<F, wr2, i, reads>>
       ELSE /\ F' = Alg2Assign(F, Alg2Column(F, H, L, i), i)
            /\ wr2' = wr2 \cup {<<a, i + 1>> : a \in Alg2Target(F, i)}
            /\ reads' = Alg2Reads(F, i)
            /\ IF i + 1 < N
               THEN i' = i + 1 /\ pc' = "loop2"
               ELSE i' = i /\ pc' = "diag2"
            /\ err' = err
    /\ UNCHANGED <<N, T, hker, lker, defined, Delta, fhat, n, f_loop,
                   A_H, B_H, H, A_L, B_L, L, f_vec, wr1, grid, rowi>>

\* f_vec = np.diagonal(F)
Alg2Diag ==
    /\ pc = "diag2"
    /\ f_vec' = Diagonal(F)
    /\ reads' = {<<k, k>> : k \in DOMAIN Diagonal(F)}
    /\ defined' = defined \cup {"f_vec"}
    /\ pc' = "done"
    /\ UNCHANGED <<N, T, hker, lker, err, Delta, fhat, n, i, f_loop,
                   A_H, B_H, H, A_L, B_L, L, F, wr1, wr2, grid, rowi>>

\* ------------------------------------- Algorithm 1 with its rows interleaved
\* The rows n = 0..N of the double loop handed to independent workers: each
\* row keeps its inner loop in increasing i, the rows advance in any order.
\* Kernels are total with constant term 1, and N, T are positive.
InitRows ==
    /\ N \in 1..MaxN
    /\ T \in {N * d : d \in 1..MaxDelta}
    /\ hker \in {k \in HKernelsTotal : k.c0 = 1}
    /\ lker \in {k \in LKernelsTotal : k.c0 = 1}
    /\ pc = "config"
    /\ err = "none"
    /\ defined = {"N"}
    /\ Delta = 0
    /\ n = 0
    /\ i = 0
    /\ fhat = <<>> /\ f_loop = <<>>
    /\ A_H = <<>> /\ B_H = <<>> /\ H = <<>>
    /\ A_L = <<>> /\ B_L = <<>> /\ L = <<>>
    /\ F = <<>> /\ f_vec = <<>>
    /\ grid = <<>>
    /\ wr1 = {} /\ wr2 = {}
    /\ reads = {}
    /\ rowi = [r \in 0..N |-> 0]

\* the body of the inner loop, run by the worker of row r at its next i
RowStep(r) ==
    /\ pc = "loop1"
    /\ rowi[r] <= r
    /\ fhat' = [fhat EXCEPT ![r][rowi[r]] = Alg1Value(fhat, r, rowi[r])]
    /\ wr1' = wr1 \cup {<<r, rowi[r]>>}
    /\ reads' = IF rowi[r] = 0 THEN {} ELSE Alg1Reads(r, rowi[r])
    /\ n' = r
    /\ i' = rowi[r]
    /\ rowi' = [rowi EXCEPT ![r] = rowi[r] + 1]
    /\ pc' = IF \A q \in 0..N : rowi'[q] = q + 1 THEN "diag1" ELSE "loop1"
    /\ UNCHANGED <<N, T, hker, lker, err, defined, Delta, f_loop,
                   A_H, B_H, H, A_L, B_L, L, F, f_vec, grid, wr2>>

NextRows ==
    \/ Configure
    \/ AllocFhat
    \/ \E r \in 0..N : RowStep(r)
    \/ Alg1Diag

SpecRows == InitRows /\ [][NextRows]_vars

\* the double loop of Algorithm 1 in its sequential order, continued from
\* the array f at position (nn, ii) (each intermediate array is bound once,
\* as a value)
RECURSIVE SeqRun(_, _, _)
SeqRun(f, nn, ii) ==
    IF nn > N
    THEN f
    ELSE CHOOSE r \in {IF ii < nn THEN SeqRun(f1, nn, ii + 1) ELSE SeqRun(f1, nn + 1, 0) :
                          f1 \in {[f EXCEPT ![nn][ii] = Alg1Value(f, nn, ii)]}} : TRUE

\* fhat as the sequential double loop leaves it
SeqFhat == SeqRun(Zeros(N + 1, N + 1), 0, 0)

\* ----------------------------- Algorithm 2 on matrices other than h's, lam's
\* Algorithm 2 reads the globals H and L.  A second run on matrices that
\* differ from hVec(A_H, B_H) and MakeL(B_L, A_L) is a run in which H and L
\* were rebound between the cell that builds L and the cell of the loop.
InitPair ==
    /\ N \in 1..MaxN
    /\ T \in {N * d : d \in 1..MaxDelta}
    /\ hker \in {k \in HKernelsTotal : k.c0 = 1}
    /\ lker \in {k \in LKernelsTotal : k.c0 = 1}
    /\ pc = "config"
    /\ err = "none"
    /\ defined = {"N"}
    /\ Delta = 0
    /\ n = 0
    /\ i = 0
    /\ fhat = <<>> /\ f_loop = <<>>
    /\ A_H = <<>> /\ B_H = <<>> /\ H = <<>>
    /\ A_L = <<>> /\ B_L = <<>> /\ L = <<>>
    /\ F = <<>> /\ f_vec = <<>>
    /\ grid = <<>>
    /\ wr1 = {} /\ wr2 = {}
    /\ reads = {}
    /\ rowi = <<>>

\* the strictly-upper entries of H and the strictly-lower entries of L
HAbove == {e \in (0..N) \X (0..N) : e[2] > e[1]}
LBelow == {e \in (0..(N - 1)) \X (0..(N - 1)) : e[1] > e[2]}

\* the sets of entries a rebinding changes: none, one entry, or all of S
Masks(S) == {{}, S} \cup {{e} : e \in S}

\* M with the entries of S changed, each by a different amount
Rebound(M, S) ==
    [a \in DOMAIN M |-> [b \in DOMAIN M[a] |->
        IF <<a, b>> \in S THEN M[a][b] + 1 + a + 2 * b ELSE M[a][b]]]

\* H and L rebound above, resp. below, the diagonal
Rebind ==
    /\ pc = "initF"
    /\ H = hVec(A_H, B_H)
    /\ L = MakeL(B_L, A_L)
    /\ \E mh \in Masks(HAbove) : \E ml \in Masks(LBelow) :
          /\ mh \cup ml # {}
          /\ H' = Rebound(H, mh)
          /\ L' = Rebound(L, ml)
    /\ UNCHANGED <<N, T, hker, lker, pc, err, defined, Delta, fhat, n, i, f_loop,
                   A_H, B_H, A_L, B_L, F, f_vec, grid, wr1, wr2, reads, rowi>>

NextPair ==
    \/ Configure
    \/ AllocFhat
    \/ Alg1Step
    \/ Alg1Diag
    \/ BuildH
    \/ BuildL
    \/ Rebind
    \/ InitF
    \/ Alg2Step
    \/ Alg2Diag

SpecPair == InitPair /\ [][NextPair]_vars

\* the loop of Algorithm 2 on the matrices hh and ll, continued from the
\* array f at step ii (each intermediate array is bound once, as a value)
RECURSIVE BlockRun(_, _, _, _)
BlockRun(f, hh, ll, ii) ==
    IF ii >= N
    THEN f
    ELSE CHOOSE r \in {BlockRun(f1, hh, ll, ii + 1) :
                          f1 \in {Alg2Assign(f, Alg2Column(f, hh, ll, ii), ii)}} : TRUE

\* F as Algorithm 2 leaves it on the matrices built from h and lam
BlockF ==
    CHOOSE r \in {BlockRun(InitFValue(hh), hh, ll, 0) :
                     hh \in {hVec(A_H, B_H)}, ll \in {MakeL(B_L, A_L)}} : TRUE

\* -------------------------------------------- the grid cells, in binary64
InitGrid ==
    /\ N \in 1..MaxGridN
    /\ T \in 1..MaxGridT
    /\ hker \in {[form |-> "affine", c0 |-> 0, ct |-> 0, ctau |-> 0, dom |-> "total", lim |-> 0]}
    /\ lker \in {[form |-> "affine", c0 |-> 0, cu |-> 0, ctau |-> 0, dom |-> "total", lim |-> 0]}
    /\ pc = "config"
    /\ err = "none"
    /\ defined = {"N"}
    /\ Delta = FZero
    /\ n = 0
    /\ i = 0
    /\ fhat = <<>> /\ f_loop = <<>>
    /\ A_H = <<>> /\ B_H = <<>> /\ H = <<>>
    /\ A_L = <<>> /\ B_L = <<>> /\ L = <<>>
    /\ F = <<>> /\ f_vec = <<>>
    /\ grid = <<>>
    /\ wr1 = {} /\ wr2 = {}
    /\ reads = {}
    /\ rowi = <<>>

\* Delta = 100 / N, a float division
ConfigureF ==
    /\ pc = "config"
    /\ IF N = 0
       THEN /\ Raise("ZeroDivisionError")
            /\ UNCHANGED <<Delta, defined>>
       ELSE /\ Delta' = FDivInt(T, N)
            /\ defined' = defined \cup {"Delta"}
            /\ pc' = "gridcell"
            /\ err' = err
    /\ UNCHANGED <<N, T, hker, lker, fhat, n, i, f_loop,
                   A_H, B_H, H, A_L, B_L, L, F, f_vec, grid, wr1, wr2, reads, rowi>>

\* mutant: the grid built from np.arange(0, N)
MakeGrid_Short == [k \in DOMAIN Arange(0, N) |-> FMulInt(Delta, Arange(0, N)[k])]

\* Delta * np.arange(0, N + 1)
MakeGrid == [k \in DOMAIN Arange(0, N + 1) |-> FMulInt(Delta, Arange(0, N + 1)[k])]

\* grid = Delta * np.arange(0, N + 1)
GridCell ==
    /\ pc = "gridcell"
    /\ grid' = MakeGrid
    /\ defined' = defined \cup {"grid"}
    /\ pc' = "done"
    /\ UNCHANGED <<N, T, hker, lker, err, Delta, fhat, n, i, f_loop,
                   A_H, B_H, H, A_L, B_L, L, F, f_vec, wr1, wr2, reads, rowi>>

NextGrid ==
    \/ ConfigureF
    \/ GridCell

SpecGrid == InitGrid /\ [][NextGrid]_vars

Next ==
    \/ Configure
    \/ AllocFhat
    \/ Alg1Step
    \/ Alg1Diag
    \/ BuildH
    \/ BuildL
    \/ InitF
    \/ Alg2Step
    \/ Alg2Diag

Spec == Init /\ [][Next]_vars

\* --------------------------------------------- runs that are carried through
\* N >= 1 with total kernels (of constant term 1); the interpreter runs each
\* cell and each loop iteration as long as there is one to run.
InitFair ==
    /\ N \in 1..MaxN
    /\ T \in Horizons(N)
    /\ hker \in {k \in HKernelsTotal : k.c0 = 1}
    /\ lker \in {k \in LKernelsTotal : k.c0 = 1}
    /\ pc = "config"
    /\ err = "none"
    /\ defined = {"N"}
    /\ Delta = 0
    /\ n = 0
    /\ i = 0
    /\ fhat = <<>> /\ f_loop = <<>>
    /\ A_H = <<>> /\ B_H = <<>> /\ H = <<>>
    /\ A_L = <<>> /\ B_L = <<>> /\ L = <<>>
    /\ F = <<>> /\ f_vec = <<>>
    /\ grid = <<>>
    /\ wr1 = {} /\ wr2 = {}
    /\ reads = {}
    /\ rowi = <<>>

SpecFair == InitFair /\ [][Next]_vars /\ WF_vars(Next)

\* ================================================================ claims
\* the lower triangle (i <= n) of an (nn + 1)-by-(nn + 1) array
LowerTri(nn) == {e \in (0..nn) \X (0..nn) : e[2] <= e[1]}

\* the kernel lam is zero everywhere
LamZero ==
    /\ lker.form = "affine"
    /\ lker.c0 = 0 /\ lker.cu = 0 /\ lker.ctau = 0 /\ lker.dom = "total"

\* Algorithm 1 has run to the end of its double loop
DirectDone == pc = "diag1" \/ "f_loop" \in defined

\* C1: for every N >= 1, step size and pair of kernels, in exact arithmetic
\* (the integer-valued kernels), once both solvers have finished the diagonal
\* of Algorithm 2 equals the diagonal of Algorithm 1: f_vec[n] = f_loop[n]
\* for every n in 0..N.
C1_Equivalence ==
    pc = "done" =>
        /\ DOMAIN f_vec = 0..N
        /\ DOMAIN f_loop = 0..N
        /\ Exact => \A k \in 0..N : f_vec[k] = f_loop[k]

C1_Witness ==
    /\ pc = "done" /\ Exact /\ N >= 2 /\ Delta >= 2
    /\ hker.ct = 1 /\ hker.ctau = 1
    /\ lker.c0 = 1 /\ lker.cu = 1 /\ lker.ctau = 1
    /\ f_vec[N] > f_vec[N - 1]
    /\ f_vec[N] # h(N * Delta, 0)

\* the sum over k = kk..ii of fhat[nn][ii - k] * lam(k * Delta, (nn - ii) * Delta)
RECURSIVE ConvSum(_, _, _)
ConvSum(nn, ii, kk) ==
    IF kk > ii
    THEN 0
    ELSE fhat[nn][ii - kk] * lam(kk * Delta, (nn - ii) * Delta) + ConvSum(nn, ii, kk + 1)

\* the binary64 sum over k = 1..kk, in this order, of the terms
\* fhat[nn][ii - k] * lam(k * Delta, (nn - ii) * Delta), each scaled by Delta
RECURSIVE ScaledSum(_, _, _)
ScaledSum(nn, ii, kk) ==
    IF kk < 1
    THEN FZero
    ELSE FAdd(ScaledSum(nn, ii, kk - 1),
              FMul(FMul(fhat[nn][ii - kk],
                   lam(StepTimes(Delta, kk), StepTimes(Delta, nn - ii))), Delta))

\* C2: when Algorithm 1 finishes, fhat[n][0] = h(n Delta, n Delta) for every
\* n, and for 1 <= i <= n  fhat[n][i] = h(n Delta, (n - i) Delta)
\* + Delta * Sum_{k = 1..i} fhat[n][i - k] * lam(k Delta, (n - i) Delta); in
\* binary64 the sum is that of the terms k = 1..i, each scaled by Delta.
C2_DirectRecurrence ==
    DirectDone =>
        \A nn \in 0..N :
            /\ fhat[nn][0] = h(StepTimes(Delta, nn), StepTimes(Delta, nn))
            /\ Exact =>
                  \A ii \in 1..nn :
                      fhat[nn][ii] =
                          h(StepTimes(Delta, nn), StepTimes(Delta, nn - ii))
                              + Delta * ConvSum(nn, ii, 1)
            /\ ~ Exact =>
                  \A ii \in 1..nn :
                      fhat[nn][ii] =
                          FAdd(h(StepTimes(Delta, nn), StepTimes(Delta, nn - ii)),
                               ScaledSum(nn, ii, ii))

C2_Witness ==
    /\ DirectDone /\ Exact /\ N >= 2 /\ Delta >= 2
    /\ lker.c0 = 1 /\ lker.cu = 1
    /\ hker.c0 = 1
    /\ fhat[N][N] > h(N * Delta, 0) + Delta * fhat[N][N - 1] * lam(Delta, 0)

\* C3 as stated: if lam is zero everywhere then, for every N >= 1 and every
\* kernel h, ResultVector[n] of both solvers equals h(n Delta, n Delta).
C3_DegenerateAsStated ==
    (LamZero /\ N >= 1 /\ T >= 1) =>
        /\ "f_loop" \in defined => \A k \in 0..N : f_loop[k] = h(k * Delta, k * Delta)
        /\ "f_vec" \in defined => \A k \in 0..N : f_vec[k] = h(k * Delta, k * Delta)

\* C3 amended: if lam is zero everywhere then, for every N >= 1 and every
\* kernel h, ResultVector[n] of both solvers equals h(n Delta, 0), the
\* forcing term at lag (n - n) Delta = 0.
C3_DegenerateKernel ==
    (LamZero /\ N >= 1) =>
        /\ "f_loop" \in defined => \A k \in 0..N : f_loop[k] = h(k * Delta, 0)
        /\ "f_vec" \in defined => \A k \in 0..N : f_vec[k] = h(k * Delta, 0)

C3_Witness ==
    /\ LamZero /\ pc = "done" /\ Exact /\ N >= 2 /\ Delta >= 1
    /\ hker.ctau = 1
    /\ f_vec[N] # h(N * Delta, N * Delta)
    /\ f_loop[N] = h(N * Delta, 0)

\* C4: for every N >= 1 and all kernels, ResultVector[0] of both solvers is
\* h(0, 0), whatever lam is.
C4_BoundaryValue ==
    N >= 1 =>
        /\ <<0, 0>> \in wr1 => fhat[0][0] = h(Zero, Zero)
        /\ "f_loop" \in defined => f_loop[0] = h(Zero, Zero)
        /\ <<0, 0>> \in wr2 => F[0][0] = h(Zero, Zero)
        /\ "f_vec" \in defined => f_vec[0] = h(Zero, Zero)

C4_Witness ==
    /\ pc = "done" /\ Exact /\ N >= 1 /\ Delta >= 1
    /\ hker.c0 = 1 /\ lker.c0 = 1
    /\ f_vec[0] = 1
    /\ f_vec[1] # h(Delta, 0)

\* the scenario N = 2, T = 2, h(t, tau) = t, lam(u, tau) = 1
Scenario2 ==
    /\ N = 2 /\ T = 2
    /\ hker = [form |-> "affine", c0 |-> 0, ct |-> 1, ctau |-> 0, dom |-> "total", lim |-> 0]
    /\ lker = [form |-> "affine", c0 |-> 1, cu |-> 0, ctau |-> 0, dom |-> "total", lim |-> 0]

\* C5: with N = 2, T = 2, h(t, tau) = t and lam = 1 both solvers produce
\* F[0][0] = 0, F[1][0] = 1, F[1][1] = 2 and F[2][0] = 2, so
\* ResultVector[0] = 0 and ResultVector[1] = 2.
C5_Scenario2 ==
    Scenario2 =>
        /\ "f_loop" \in defined =>
              /\ fhat[0][0] = 0 /\ fhat[1][0] = 1 /\ fhat[1][1] = 2 /\ fhat[2][0] = 2
              /\ f_loop[0] = 0 /\ f_loop[1] = 2
        /\ "f_vec" \in defined =>
              /\ F[0][0] = 0 /\ F[1][0] = 1 /\ F[1][1] = 2 /\ F[2][0] = 2
              /\ f_vec[0] = 0 /\ f_vec[1] = 2

C5_Witness == Scenario2 /\ pc = "done" /\ Delta = 1 /\ f_vec[2] = 8

\* C7 as stated: if N <= 0 or T <= 0 the run ends in a configuration error
\* before any computation: nothing beyond N and Delta is ever bound and no
\* entry of a solution array is written.
C7_ConfigurationError ==
    (N <= 0 \/ T <= 0) =>
        /\ defined \subseteq {"N", "Delta"}
        /\ wr1 = {} /\ wr2 = {}
        /\ pc \notin {"done"}

\* C8: a kernel error ends the run and is never replaced by another outcome;
\* f_loop (resp. f_vec) is bound only after every lower-triangular entry of
\* fhat (resp. F) has been assigned, and then has all N + 1 entries; after
\* an error in Algorithm 1 there is no f_loop, after any error no f_vec.
C8_NoPartialResult ==
    /\ (pc = "error") <=> (err # "none")
    /\ "f_loop" \in defined => (wr1 = LowerTri(N) /\ DOMAIN f_loop = 0..N)
    /\ "f_vec" \in defined =>
          (wr2 = LowerTri(N) /\ DOMAIN f_vec = 0..N /\ err = "none")
    /\ (pc = "error" /\ "A_H" \notin defined) => "f_loop" \notin defined

C8_Witness ==
    /\ err = "KernelEvaluationError"
    /\ wr1 # {} /\ wr1 # LowerTri(N)
    /\ "f_loop" \notin defined
    /\ N >= 2

\* fhat equals M on the entries S; when whole, fhat is M and f_loop its diagonal
AgreesOn(M, S, whole) ==
    /\ \A e \in S : fhat[e[1]][e[2]] = M[e[1]][e[2]]
    /\ whole => (fhat = M /\ f_loop = Diagonal(M))

\* C10: the assignment to fhat[n][i] reads entries of row n only, and for
\* every interleaving of the rows (each row in increasing i) every entry
\* written, the final fhat and f_loop are those of the sequential order.
C10_RowIndependence ==
    /\ (pc \in {"loop1", "diag1"} /\ wr1 # {}) => \A e \in reads : e[1] = n
    /\ wr1 # {} => AgreesOn(SeqFhat, wr1, "f_loop" \in defined)

\* the last row is complete before the first row has started, with a
\* convolution term that contributes
C10_Witness ==
    /\ pc = "loop1" /\ Exact /\ N >= 2 /\ Delta >= 1
    /\ rowi[N] = N + 1 /\ rowi[0] = 0
    /\ lker.c0 = 1 /\ hker.c0 = 1
    /\ fhat[N][N] > h(N * Delta, 0)
    /\ reads = {<<N, k>> : k \in 0..(N - 1)}

\* C6 as stated: the grid has exactly N + 1 points, starts at 0, is strictly
\* increasing, and every adjacent pair differs by exactly Delta.
C6_GridExactSpacing ==
    "grid" \in defined =>
        /\ DOMAIN grid = 0..N
        /\ grid[0] = FZero
        /\ \A k \in 0..(N - 1) :
              /\ FLess(grid[k], grid[k + 1])
              /\ FSub(grid[k + 1], grid[k]) = Delta

\* C6 amended: the grid has exactly N + 1 points, starts at 0, is strictly
\* increasing, and every adjacent pair differs by Delta up to rounding: by
\* at most one unit in the last place of the larger point, and by exactly
\* Delta for the first two pairs.
C6_GridSpacing ==
    "grid" \in defined =>
        /\ DOMAIN grid = 0..N
        /\ grid[0] = FZero
        /\ \A k \in 0..(N - 1) :
              /\ FLess(grid[k], grid[k + 1])
              /\ LET dev == FAbsDiff(FSub(grid[k + 1], grid[k]), Delta)
                 IN  dev = FUlp(grid[k + 1]) \/ FLess(dev, FUlp(grid[k + 1]))
              /\ k <= 1 => FSub(grid[k + 1], grid[k]) = Delta

\* a grid with a step that is not Delta
C6_Witness ==
    /\ "grid" \in defined /\ N >= 3
    /\ \E k \in 0..(N - 1) : FSub(grid[k + 1], grid[k]) # Delta

\* C11: neither solver reads an entry of its solution array before that
\* entry has its final value.  The assignment to fhat[n][i] reads only
\* fhat[n][j] with j < i, all assigned before; step i of Algorithm 2 reads
\* exactly F[a][c] with a in i+1..N and c in 0..i, all assigned before; and an
\* assigned entry never changes afterwards.
C11_ReadAfterWrite ==
    [][/\ (pc = "loop1" /\ pc' # "error") =>
              /\ reads' \subseteq wr1
              /\ reads' = {<<n, j>> : j \in 0..(i - 1)}
       /\ (pc = "loop2" /\ pc' # "error") =>
              /\ reads' \subseteq wr2
              /\ reads' = ((i + 1)..N) \X (0..i)
       /\ \A e \in wr1 : fhat'[e[1]][e[2]] = fhat[e[1]][e[2]]
       /\ \A e \in wr2 : F'[e[1]][e[2]] = F[e[1]][e[2]]]_vars

\* the last column step has read the whole prefix of row N, whose entries
\* carry convolution terms
C11_Witness ==
    /\ pc = "diag2" /\ Exact /\ N >= 2 /\ Delta >= 1
    /\ lker.c0 = 1 /\ hker.c0 = 1
    /\ reads = {<<N, c>> : c \in 0..(N - 1)}
    /\ reads \subseteq wr2
    /\ F[N][N - 1] > h(N * Delta, Delta)

\* the strictly-upper region (i > n) of an (nn + 1)-by-(nn + 1) array
UpperTri(nn) == {e \in (0..nn) \X (0..nn) : e[2] > e[1]}

\* C12: in both solvers the strictly-upper region of the solution array
\* (entries [n][i] with i > n) is never read and never written, so from the
\* allocation on, and when the diagonal is extracted, it is all zeros.
C12_UpperUntouched ==
    /\ reads \cap UpperTri(N) = {}
    /\ wr1 \cap UpperTri(N) = {}
    /\ wr2 \cap UpperTri(N) = {}
    /\ "fhat" \in defined => \A e \in UpperTri(N) : fhat[e[1]][e[2]] = Zero
    /\ "F" \in defined => \A e \in UpperTri(N) : F[e[1]][e[2]] = Zero

\* both diagonals are extracted, every lower-triangular entry is non-zero and
\* the upper region is not empty
C12_Witness ==
    /\ pc = "done" /\ Exact /\ N >= 2 /\ Delta >= 1
    /\ hker.c0 = 1 /\ lker.c0 = 1
    /\ \A e \in LowerTri(N) : fhat[e[1]][e[2]] > 0 /\ F[e[1]][e[2]] > 0
    /\ F[0][N] = 0 /\ fhat[0][N] = 0

\* F equals M on the entries S; when whole, f_vec is the diagonal of M
FAgreesOn(M, S, whole) ==
    /\ \A e \in S : F[e[1]][e[2]] = M[e[1]][e[2]]
    /\ whole => f_vec = Diagonal(M)

\* C13: the output of Algorithm 2 does not depend on the strictly-upper
\* triangle of H nor on the strictly-lower triangle of L: a run on matrices
\* that agree with H on i <= n and with L on j <= k and differ elsewhere
\* assigns the same lower triangle of F and the same f_vec as the run on H
\* and L themselves.
C13_UnusedTriangles ==
    "F" \in defined =>
        /\ \A M \in {BlockF} : FAgreesOn(M, wr2, "f_vec" \in defined)
        /\ "f_vec" \in defined => wr2 = LowerTri(N)

\* a finished run on matrices rebound in both unused triangles
C13_Witness ==
    /\ pc = "done" /\ Exact /\ N >= 2 /\ Delta >= 1
    /\ \A e \in HAbove : H[e[1]][e[2]] # hVec(A_H, B_H)[e[1]][e[2]]
    /\ \A e \in LBelow : L[e[1]][e[2]] # MakeL(B_L, A_L)[e[1]][e[2]]
    /\ f_vec[N] > h(N * Delta, 0)
    /\ wr2 = LowerTri(N)

\* C14: for every N >= 1 and every (n, i) with 0 <= i <= n <= N the matrix H
\* has H[n][i] = h(n Delta, (n - i) Delta), and from its initialisation on
\* F[n][0] = H[n][0] = h(n Delta, n Delta) for every n in 0..N.
C14_KernelMatrix ==
    N >= 1 =>
        /\ "H" \in defined =>
              \A e \in LowerTri(N) :
                  H[e[1]][e[2]] =
                      h(StepTimes(Delta, e[1]), StepTimes(Delta, e[1] - e[2]))
        /\ "F" \in defined =>
              \A nn \in 0..N :
                  F[nn][0] = H[nn][0] /\ H[nn][0] = h(StepTimes(Delta, nn), StepTimes(Delta, nn))

\* F is initialised from an H whose entries differ along a row and along a
\* column
C14_Witness ==
    /\ "F" \in defined /\ pc = "loop2" /\ Exact /\ N >= 2 /\ Delta >= 2
    /\ hker.ct = 1 /\ hker.ctau = 1
    /\ F[N][0] = h(N * Delta, N * Delta)
    /\ H[N][0] # H[N][N] /\ H[N][N] # H[N - 1][N - 1] /\ H[N][1] # H[N - 1][0]

\* M is symmetric
Symmetric(M) == \A a \in DOMAIN M : \A b \in DOMAIN M : M[a][b] = M[b][a]

\* C15 as stated: B_H is symmetric and constant along each anti-diagonal:
\* B_H[n][i] = B_H[n'][i'] whenever n + i = n' + i', for all indices in 0..N.
C15_AntiDiagonalConstant ==
    ("B_H" \in defined /\ N >= 1 /\ T >= 1) =>
        /\ Symmetric(B_H)
        /\ \A a \in 0..N : \A b \in 0..N : \A c \in 0..N : \A d \in 0..N :
              a + b = c + d => B_H[a][b] = B_H[c][d]

\* C15 amended: B_H is symmetric and constant along each diagonal:
\* B_H[n][i] = B_H[n'][i'] whenever n - i = n' - i', for all indices in 0..N,
\* the common value being Delta * |n - i|.
C15_DiagonalConstant ==
    ("B_H" \in defined /\ N >= 1) =>
        /\ Symmetric(B_H)
        /\ \A a \in 0..N : \A b \in 0..N : \A c \in 0..N : \A d \in 0..N :
              a - b = c - d => B_H[a][b] = B_H[c][d]
        /\ \A a \in 0..N : \A b \in 0..N :
              B_H[a][b] = StepTimes(Delta, IF a >= b THEN a - b ELSE b - a)

\* B_H differs along an anti-diagonal and is constant along a diagonal
C15_Witness ==
    /\ "B_H" \in defined /\ Exact /\ N >= 2 /\ Delta >= 1
    /\ B_H[1][1] # B_H[0][2]
    /\ B_H[0][1] = B_H[1][2] /\ B_H[0][1] # 0

\* C16: for every N >= 1 and every step i in 0..N-1 of Algorithm 2 the
\* window of L that is multiplied, requested as rows 0 : N-i and columns
\* N-i-1 : N+1 of the N-by-N matrix L, consists exactly of rows 0..N-i-1 and
\* columns N-i-1..N-1, lies inside L, and has the shape (N-i) by (i+1) of
\* the prefix F[i+1..N][0..i]; no step fails on a shape, and no entry of L
\* with row or column index N is needed.
C16_WindowInsideL ==
    N >= 1 =>
        /\ pc = "loop2" =>
              /\ i \in 0..(N - 1)
              /\ Rows(L) = N /\ Cols(L) = N
              /\ SliceIdx(0, N - i, Rows(L)) = 0..(N - i - 1)
              /\ SliceIdx(N - i - 1, N + 1, Cols(L)) = (N - i - 1)..(N - 1)
              /\ LWindow(L, i) =
                    [a \in 0..(N - i - 1) |-> [b \in 0..i |-> L[a][N - i - 1 + b]]]
              /\ Rows(FPrefix(F, i)) = N - i /\ Cols(FPrefix(F, i)) = i + 1
              /\ Rows(LWindow(L, i)) = N - i /\ Cols(LWindow(L, i)) = i + 1
              /\ ~ Alg2Raises(F, H, L, i)
        /\ err # "ValueError"

\* the last step has multiplied the whole first row of an L whose entries
\* differ along the row
C16_Witness ==
    /\ pc = "diag2" /\ Exact /\ N >= 2 /\ Delta >= 1
    /\ i = N - 1
    /\ Cols(LWindow(L, i)) = N /\ Rows(LWindow(L, i)) = 1
    /\ L[0][0] # L[0][N - 1]
    /\ wr2 = LowerTri(N)

\* the entries in which the arrays X and Y of one shape differ
Changed(X, Y) == {e \in (DOMAIN X) \X (DOMAIN X) : X[e[1]][e[2]] # Y[e[1]][e[2]]}

\* C17: population is write-once.  Every step of the double loop assigns one
\* entry of fhat that was not assigned before and changes no other; every
\* column step of Algorithm 2 assigns the entries F[i+1..N][i+1], none of
\* them assigned before, and leaves H, L and every other entry of F as they
\* were; once the diagonals are extracted nothing is assigned any more, and
\* by then every lower-triangular entry has been assigned.
C17_WriteOnce ==
    [][/\ (pc = "loop1" /\ pc' # "error") =>
              /\ <<n, i>> \notin wr1
              /\ wr1' = wr1 \cup {<<n, i>>}
              /\ Changed(fhat, fhat') \subseteq {<<n, i>>}
       /\ pc # "loop1" => (wr1' = wr1 /\ (pc # "alloc" => fhat' = fhat))
       /\ (pc = "loop2" /\ pc' # "error") =>
              /\ wr2 \cap (((i + 1)..N) \X {i + 1}) = {}
              /\ wr2' = wr2 \cup (((i + 1)..N) \X {i + 1})
              /\ Changed(F, F') \subseteq ((i + 1)..N) \X {i + 1}
              /\ H' = H /\ L' = L
       /\ pc \notin {"initF", "loop2"} => (wr2' = wr2 /\ F' = F)
       /\ pc = "initF" => (wr2 = {} /\ wr2' = (0..N) \X {0})
       /\ "f_loop" \in defined' => wr1' = LowerTri(N)
       /\ "f_vec" \in defined' => wr2' = LowerTri(N)]_vars

\* both arrays are fully populated, with entries that differ from their
\* neighbours in the row
C17_Witness ==
    /\ pc = "done" /\ Exact /\ N >= 2 /\ Delta >= 1
    /\ wr1 = LowerTri(N) /\ wr2 = LowerTri(N)
    /\ F[N][N] # F[N][N - 1] /\ F[N][N - 1] # F[N][N - 2]
    /\ fhat[N][N] # fhat[N][N - 1]

\* the run is finished and every array is the one the code computes from
\* N, Delta, h and lam alone
FinalIsFunctionOfInputs ==
    /\ err = "none"
    /\ A_H = MakeA_H /\ B_H = MakeB_H /\ H = hVec(MakeA_H, MakeB_H)
    /\ A_L = MakeA_L /\ B_L = MakeB_L /\ L = MakeL(MakeB_L, MakeA_L)
    /\ \A M \in {SeqFhat} : fhat = M /\ f_loop = Diagonal(M)
    /\ \A M \in {BlockF} : F = M /\ f_vec = Diagonal(M)

\* C18: for every N >= 1 and total kernels both solvers terminate.  The
\* double loop makes exactly (N + 1)(N + 2) / 2 assignments with (n, i)
\* moving strictly forward (i + 1 in the row, or the start of row n + 1 from
\* the end of row n) and ends at (N, N); Algorithm 2 takes the column steps
\* i = 0, 1, ..., N - 1 and no other; at the end every lower-triangular
\* entry is assigned and the final state is a function of N, Delta, h, lam.
C18_Termination ==
    /\ [][/\ (pc = "loop1" /\ pc' = "loop1") =>
                 \/ n' = n /\ i' = i + 1 /\ i < n
                 \/ n' = n + 1 /\ i' = 0 /\ i = n
          /\ pc = "alloc" => (n' = 0 /\ i' = 0 /\ wr1' = {})
          /\ pc = "loop1" => Cardinality(wr1') = Cardinality(wr1) + 1
          /\ (pc = "loop1" /\ pc' = "diag1") => (n = N /\ i = N)
          /\ pc = "initF" => i' = 0
          /\ (pc = "loop2" /\ pc' = "loop2") => i' = i + 1
          /\ (pc = "loop2" /\ pc' = "diag2") => i = N - 1
          /\ pc' # "error"]_vars
    /\ [](pc = "done" =>
             /\ Cardinality(wr1) = ((N + 1) * (N + 2)) \div 2
             /\ wr1 = LowerTri(N) /\ wr2 = LowerTri(N)
             /\ FinalIsFunctionOfInputs)
    /\ <>(pc = "done")

\* a finished run of more than one row and more than one column step
C18_Witness ==
    /\ pc = "done" /\ Exact /\ N >= 2 /\ Delta >= 1
    /\ n = N /\ i = N - 1
    /\ Cardinality(wr1) = ((N + 1) * (N + 2)) \div 2
    /\ hker.c0 = 1 /\ lker.c0 = 1 /\ lker.cu = 1
    /\ f_vec[N] > f_vec[N - 1]

\* C19: the two solvers agree on the whole lower triangle, in exact
\* arithmetic (the integer-valued kernels): every entry F[n][i] (i <= n) that
\* Algorithm 2 has assigned equals fhat[n][i] of Algorithm 1, so after step i
\* column i + 1 of F equals column i + 1 of fhat on the rows i+1..N, and at
\* the end F = fhat on all (n, i) with i <= n.
C19_TriangleEquivalence ==
    (N >= 1 /\ "F" \in defined) =>
        /\ Exact => \A e \in wr2 : F[e[1]][e[2]] = fhat[e[1]][e[2]]
        /\ pc \in {"loop2", "diag2"} =>
              wr2 = {e \in LowerTri(N) : e[2] <= (IF pc = "loop2" THEN i ELSE N)}
        /\ pc = "done" => wr2 = LowerTri(N)

\* a finished run whose off-diagonal entries carry convolution terms and
\* differ from the diagonal
C19_Witness ==
    /\ pc = "done" /\ Exact /\ N >= 2 /\ Delta >= 2
    /\ hker.ctau = 1 /\ lker.c0 = 1 /\ lker.ctau = 1
    /\ F[N][N - 1] = fhat[N][N - 1]
    /\ F[N][N - 1] > h(N * Delta, Delta)
    /\ F[N][N - 1] # F[N][N] /\ F[N][1] # F[N - 1][1]

====
